---------------------------- MODULE Spec2Model ----------------------------
(* Inventory and sales ledger core of the duka back office:                *)
(*   backend/app/api/v1/inventory_transactions.py  (stock ledger, log)     *)
(*   backend/app/api/v1/sales.py                   (sales, credit notes,   *)
(*                                                  sale payments)         *)
(*   backend/app/api/v1/customers.py               (customer update)       *)
(*   backend/app/api/v1/expenses.py                (expenses, payments)    *)
(* Every table is a sequence of rows; a row's id is its index.  Every      *)
(* request handler is one action: its body runs to completion, with the    *)
(* writes it made before an error left in place (the handlers run without  *)
(* a database transaction).  The race explorations run the handlers one   *)
(* database call at a time, on behalf of two workers.                      *)
EXTENDS Integers, Sequences, FiniteSets, TLC

VARIABLES
    inventory_items,         \* table inventory_items
    inventory_transactions,  \* table inventory_transactions
    customers,               \* table customers, keyed by customer id
    sales,                   \* table sales
    sale_items,              \* table sale_items
    sale_payments,           \* table sale_payments
    expenses,                \* table expenses
    expense_payments,        \* table expense_payments
    last,                    \* the last request: handler and outcome
    calls                    \* the requests in flight, one per worker

vars == <<inventory_items, inventory_transactions, customers, sales,
          sale_items, sale_payments, expenses, expense_payments, last,
          calls>>

inventoryVars == <<inventory_items, inventory_transactions>>
salesVars     == <<customers, sales, sale_items, sale_payments>>
expenseVars   == <<expenses, expense_payments>>

-----------------------------------------------------------------------------
(* Bounds of the exploration.                                              *)

MaxTxns     == 3    \* rows of inventory_transactions
MaxSales    == 2    \* rows of sales
MaxPayments == 2    \* rows of sale_payments, and of expense_payments
MaxStock    == 4    \* largest quantity an inventory item is taken to
MaxExpenses == 1    \* rows of expenses
MaxDeleted  == 1    \* rows of inventory_items deleted

-----------------------------------------------------------------------------
(* Reference data the handlers only read.                                  *)

None == "None"                 \* Python None, SQL NULL, in a text column
NoId == 0                      \* the same in a column holding a row id

Companies == {"co1"}
product_variants  == [v \in {"v1"} |-> [company_id |-> "co1"]]
storage_locations == [l \in {"l1", "l2"} |-> [company_id |-> "co1"]]
customer_tiers    == [t \in {"t1"} |-> [company_id |-> "co1",
                                        discount_percentage |-> 10,
                                        is_default |-> TRUE]]
payment_terms     == [p \in {"p1"} |-> [company_id |-> "co1"]]

Variants  == DOMAIN product_variants
Locations == DOMAIN storage_locations
Tiers     == DOMAIN customer_tiers

\* Request inputs.  "v0", "l0", "c0" are ids of no row.
VariantIds  == Variants \cup {"v0"}
LocationIds == Locations \cup {"l0"}
CustomerIds == {"c1", "c2", "c0"}
Quantities  == {1, 2}
UnitPrices  == {1}           \* whole currency units
PayAmounts  == {50, 100}     \* hundredths of a unit: 0.50 and 1.00
Methods     == {"cash", "mpesa"}
References  == {None, "ref"}

\* schemas/inventory.py TransactionType: the values stored in the log.
TransactionType == [stock_in |-> "in", stock_out |-> "out",
                    adjustment |-> "adjustment", transfer |-> "transfer"]
TransactionTypes == {TransactionType[k] : k \in DOMAIN TransactionType}

\* Money.  A unit_price (of a request line, of a sale_items row) is a whole
\* number of currency units.  Every other amount (subtotal, discount_amount,
\* total_amount, line_total, amount_paid, amount_due, a payment's amount,
\* credit_limit, current_balance) is held in hundredths of a unit, so that
\* the Decimal quotient x * discount_percentage / 100 of the handlers is
\* exact for every whole price and whole percentage: 450 stands for 4.50.
Hundredths(amount) == amount * 100

InitCustomers ==
    ("c1" :> [company_id |-> "co1", customer_type |-> "business",
              credit_limit |-> Hundredths(3), current_balance |-> 0,
              customer_tier_id |-> "t1", is_default |-> FALSE]) @@
    ("c2" :> [company_id |-> "co1", customer_type |-> "walk-in",
              credit_limit |-> 0, current_balance |-> 0,
              customer_tier_id |-> None, is_default |-> TRUE])

-----------------------------------------------------------------------------
(* Helpers.                                                                *)

Min(S) == CHOOSE x \in S : \A y \in S : x <= y
abs(n) == IF n < 0 THEN -n ELSE n

RECURSIVE SumSeq(_)
SumSeq(s) == IF s = <<>> THEN 0 ELSE Head(s) + SumSeq(Tail(s))

Outcome(op, status) == [op |-> op, status |-> status]

\* The update_data of a request that sets no field.
NoFields == [f \in {} |-> None]

\* A handler that runs to completion answers its request and leaves the
\* requests in flight where they are.
Respond(op, status) ==
    /\ last' = Outcome(op, status)
    /\ UNCHANGED calls

\* .select().eq(product_variant_id).eq(storage_location_id): the matching
\* rows, and data[0], the first of them (0 when there is none).
MatchingItems(items, variant_id, location_id) ==
    {i \in DOMAIN items : /\ items[i].product_variant_id = variant_id
                          /\ items[i].storage_location_id = location_id}

FirstItem(items, variant_id, location_id) ==
    LET m == MatchingItems(items, variant_id, location_id)
    IN  IF m = {} THEN 0 ELSE Min(m)

\* The quantity on hand as a reader sees it (0 when there is no row).
OnHand(items, variant_id, location_id) ==
    LET i == FirstItem(items, variant_id, location_id)
    IN  IF i = 0 THEN 0 ELSE items[i].quantity

WithinStock(items) == \A i \in DOMAIN items : items[i].quantity <= MaxStock

-----------------------------------------------------------------------------
(* Stock ledger: inventory_transactions.py, update_inventory_quantity.     *)
(* Returns the error raised ("ok" when none) and the table after the call. *)

\* Variant: an existing row is written without the check of new_qty.
update_inventory_quantity_unchecked(items, company_id, variant_id, location_id, quantity_change) ==
    LET i == FirstItem(items, variant_id, location_id) IN
    IF i # 0
    THEN [err |-> "ok",
          items |-> [items EXCEPT ![i].quantity = @ + quantity_change]]
    ELSE IF quantity_change < 0
         THEN [err |-> "InvalidTransition", items |-> items]
         ELSE [err |-> "ok",
               items |-> Append(items,
                           [company_id |-> company_id,
                            product_variant_id |-> variant_id,
                            storage_location_id |-> location_id,
                            quantity |-> quantity_change])]

update_inventory_quantity(items, company_id, variant_id, location_id, quantity_change) ==
    LET i == FirstItem(items, variant_id, location_id) IN
    IF i # 0
    THEN LET new_qty == items[i].quantity + quantity_change IN
         IF new_qty < 0
         THEN [err |-> "InsufficientStock", items |-> items]
         ELSE [err |-> "ok",
               items |-> [items EXCEPT ![i].quantity = new_qty]]
    ELSE IF quantity_change < 0
         THEN [err |-> "InvalidTransition", items |-> items]
         ELSE [err |-> "ok",
               items |-> Append(items,
                           [company_id |-> company_id,
                            product_variant_id |-> variant_id,
                            storage_location_id |-> location_id,
                            quantity |-> quantity_change])]

\* Two calls in a row: the second runs only if the first did not raise, and
\* the first call's write stays when the second raises.
ThenUpdate(r, company_id, variant_id, location_id, quantity_change) ==
    IF r.err # "ok" THEN r
    ELSE update_inventory_quantity(r.items, company_id, variant_id,
                                   location_id, quantity_change)

\* A log row that drops what it refers to.
TxnUntagged(company_id, variant_id, type, quantity, from, to, ref_type, ref_id) ==
    [company_id |-> company_id, product_variant_id |-> variant_id,
     transaction_type |-> type, quantity |-> quantity,
     from_location_id |-> from, to_location_id |-> to,
     reference_type |-> None, reference_id |-> NoId]

\* A row of inventory_transactions.  The supplier and cost columns are left
\* out: requests are drawn with supplier_id, unit_cost and amount_paid unset.
Txn(company_id, variant_id, type, quantity, from, to, ref_type, ref_id) ==
    [company_id |-> company_id, product_variant_id |-> variant_id,
     transaction_type |-> type, quantity |-> quantity,
     from_location_id |-> from, to_location_id |-> to,
     reference_type |-> ref_type, reference_id |-> ref_id]

-----------------------------------------------------------------------------
(* inventory_transactions.py, create_inventory_transaction (Record).       *)

\* The stock movement of a request of the given type: the error raised and
\* the inventory_items table it leaves.
RecordMovement(items, company_id, variant_id, type, quantity, from, to) ==
    LET start == [err |-> "ok", items |-> items] IN
    CASE type = TransactionType.stock_in ->
           IF to = None THEN [err |-> "ValidationError", items |-> items]
           ELSE update_inventory_quantity(items, company_id, variant_id,
                                          to, quantity)
      [] type = TransactionType.stock_out ->
           IF from = None THEN [err |-> "ValidationError", items |-> items]
           ELSE update_inventory_quantity(items, company_id, variant_id,
                                          from, -quantity)
      [] type = TransactionType.transfer ->
           IF from = None \/ to = None
           THEN [err |-> "ValidationError", items |-> items]
           ELSE ThenUpdate(
                  update_inventory_quantity(items, company_id, variant_id,
                                            from, -quantity),
                  company_id, variant_id, to, quantity)
      [] type = TransactionType.adjustment ->
           IF to = None /\ from = None
           THEN [err |-> "ValidationError", items |-> items]
           ELSE IF to # None
                THEN update_inventory_quantity(items, company_id,
                                               variant_id, to, quantity)
                ELSE update_inventory_quantity(items, company_id,
                                               variant_id, from, -quantity)
      [] OTHER -> start

\* Lines 195-196: the row takes the request's reference_type and
\* reference_id as they are given.
create_inventory_transaction(company_id, variant_id, type, quantity, from, to, reference_type, reference_id) ==
    IF \/ variant_id \notin Variants
       \/ product_variants[variant_id].company_id # company_id
    THEN /\ Respond("create_inventory_transaction", "NotFound")
         /\ UNCHANGED <<inventoryVars, salesVars, expenseVars>>
    ELSE LET r == RecordMovement(inventory_items, company_id, variant_id,
                                 type, quantity, from, to) IN
         /\ WithinStock(r.items)
         /\ inventory_items' = r.items
         /\ IF r.err = "ok"
            THEN /\ Len(inventory_transactions) < MaxTxns
                 /\ inventory_transactions' =
                      Append(inventory_transactions,
                             Txn(company_id, variant_id, type, quantity,
                                 from, to, reference_type, reference_id))
            ELSE UNCHANGED inventory_transactions
         /\ Respond("create_inventory_transaction", r.err)
         /\ UNCHANGED <<salesVars, expenseVars>>

-----------------------------------------------------------------------------
(* inventory_transactions.py, adjust_stock (AdjustStock).                  *)

adjust_stock(company_id, variant_id, location_id, quantity_change) ==
    LET r == update_inventory_quantity(inventory_items, company_id,
                                       variant_id, location_id,
                                       quantity_change) IN
    /\ WithinStock(r.items)
    /\ inventory_items' = r.items
    /\ IF r.err = "ok"
       THEN /\ Len(inventory_transactions) < MaxTxns
            /\ inventory_transactions' =
                 Append(inventory_transactions,
                        Txn(company_id, variant_id,
                            TransactionType.adjustment,
                            abs(quantity_change),
                            IF quantity_change < 0 THEN location_id
                                                   ELSE None,
                            IF quantity_change > 0 THEN location_id
                                                   ELSE None,
                            None, NoId))
       ELSE UNCHANGED inventory_transactions
    /\ Respond("adjust_stock", r.err)
    /\ UNCHANGED <<salesVars, expenseVars>>

-----------------------------------------------------------------------------
(* inventory_transactions.py, reverse_transaction (Reverse).               *)

\* Variant: the check looks for a reversal row of the original's type.
ReversalsOfSameType(log, transaction_id) ==
    {i \in DOMAIN log : /\ log[i].reference_type = "reversal"
                        /\ log[i].reference_id = transaction_id
                        /\ log[i].transaction_type =
                             log[transaction_id].transaction_type}

\* reversal_check: the rows tagged as the reversal of transaction_id.
Reversals(log, transaction_id) ==
    {i \in DOMAIN log : /\ log[i].reference_type = "reversal"
                        /\ log[i].reference_id = transaction_id}

\* Type and locations of the reversing row (lines 353-366).
ReverseType(original) ==
    IF original.transaction_type = "in" THEN "out"
    ELSE IF original.transaction_type = "out" THEN "in"
    ELSE original.transaction_type

ReverseFrom(original) ==
    IF original.transaction_type = "out" THEN None
    ELSE original.to_location_id

ReverseTo(original) ==
    IF original.transaction_type = "in" THEN None
    ELSE original.from_location_id

\* A reversal that also undoes an adjustment.
ReverseMovementUndoing(items, company_id, original) ==
    LET variant_id == original.product_variant_id
        quantity   == original.quantity
    IN  IF original.transaction_type # "adjustment"
        THEN [err |-> "ok", items |-> items]
        ELSE IF original.to_location_id # None
        THEN update_inventory_quantity(items, company_id, variant_id,
                                       original.to_location_id, -quantity)
        ELSE update_inventory_quantity(items, company_id, variant_id,
                                       original.from_location_id, quantity)

\* The stock movement of the reversal (lines 368-400).
ReverseMovement(items, company_id, original) ==
    LET reverse_type == ReverseType(original)
        reverse_from == ReverseFrom(original)
        reverse_to   == ReverseTo(original)
        variant_id   == original.product_variant_id
        quantity     == original.quantity
    IN  CASE reverse_type = "in" ->
               update_inventory_quantity(items, company_id, variant_id,
                                         reverse_to, quantity)
          [] reverse_type = "out" ->
               update_inventory_quantity(items, company_id, variant_id,
                                         reverse_from, -quantity)
          [] reverse_type = "transfer" ->
               ThenUpdate(
                 update_inventory_quantity(items, company_id, variant_id,
                                           reverse_from, quantity),
                 company_id, variant_id, reverse_to, -quantity)
          [] OTHER -> [err |-> "ok", items |-> items]

reverse_transaction(company_id, transaction_id) ==
    IF \/ transaction_id \notin DOMAIN inventory_transactions
       \/ inventory_transactions[transaction_id].company_id # company_id
    THEN /\ Respond("reverse_transaction", "NotFound")
         /\ UNCHANGED <<inventoryVars, salesVars, expenseVars>>
    ELSE IF Reversals(inventory_transactions, transaction_id) # {}
    THEN /\ Respond("reverse_transaction", "AlreadyReversed")
         /\ UNCHANGED <<inventoryVars, salesVars, expenseVars>>
    ELSE LET original == inventory_transactions[transaction_id]
             r == ReverseMovement(inventory_items, company_id, original)
         IN  /\ WithinStock(r.items)
             /\ inventory_items' = r.items
             /\ IF r.err = "ok"
                THEN /\ Len(inventory_transactions) < MaxTxns
                     /\ inventory_transactions' =
                          Append(inventory_transactions,
                                 Txn(company_id,
                                     original.product_variant_id,
                                     ReverseType(original),
                                     original.quantity,
                                     ReverseFrom(original),
                                     ReverseTo(original),
                                     "reversal", transaction_id))
                ELSE UNCHANGED inventory_transactions
             /\ Respond("reverse_transaction", r.err)
             /\ UNCHANGED <<salesVars, expenseVars>>

-----------------------------------------------------------------------------
(* sales.py: helpers of create_sale and create_credit_note.                *)

\* customer_tiers(discount_percentage) joined to the customer, 0 without tier
tier_discount(customer) ==
    IF customer.customer_tier_id = None THEN 0
    ELSE customer_tiers[customer.customer_tier_id].discount_percentage

\* Variant: the stock must exceed the quantity asked for.
check_stock_strict(items, variant_id, location_id, required_quantity) ==
    LET i == FirstItem(items, variant_id, location_id) IN
    IF i = 0 THEN FALSE ELSE items[i].quantity > required_quantity

\* Variant: any row for the pair passes, whatever its quantity.
check_stock_present(items, variant_id, location_id, required_quantity) ==
    FirstItem(items, variant_id, location_id) # 0

check_stock_availability(items, variant_id, location_id, required_quantity) ==
    LET i == FirstItem(items, variant_id, location_id) IN
    IF i = 0 THEN FALSE ELSE items[i].quantity >= required_quantity

\* Quantity written back for a sale (credit note: added back), lines 61-62.
SaleNewQty(current_qty, quantity, is_credit_note) ==
    IF ~is_credit_note THEN current_qty - quantity
    ELSE current_qty + abs(quantity)

\* update_inventory_from_sale: the inventory_items table it leaves.
SaleItemsAfter(items, company_id, variant_id, location_id, quantity, is_credit_note) ==
    LET i == FirstItem(items, variant_id, location_id) IN
    IF i # 0
    THEN [items EXCEPT ![i].quantity =
                 SaleNewQty(items[i].quantity, quantity, is_credit_note)]
    ELSE IF is_credit_note
         THEN Append(items, [company_id |-> company_id,
                             product_variant_id |-> variant_id,
                             storage_location_id |-> location_id,
                             quantity |-> abs(quantity)])
         ELSE items

\* update_inventory_from_sale: the row it appends to the log.
SaleTxn(company_id, variant_id, location_id, quantity, sale_id, is_credit_note) ==
    Txn(company_id, variant_id,
        IF is_credit_note THEN "in" ELSE "out",
        abs(quantity),
        IF ~is_credit_note THEN location_id ELSE None,
        IF is_credit_note THEN location_id ELSE None,
        "sale", sale_id)

\* Totals of a list of lines [quantity, unit_price] (lines 157-165).
RECURSIVE Subtotal(_)
Subtotal(lines) ==
    IF lines = <<>> THEN 0
    ELSE Head(lines).quantity * Hundredths(Head(lines).unit_price)
           + Subtotal(Tail(lines))

\* Variant: the percentage taken as the amount.
DiscountAmountFlat(subtotal, discount_percentage) == discount_percentage

\* Line 164: (subtotal * discount_percentage) / 100.  A subtotal is a whole
\* number of units held in hundredths, so the quotient has no remainder.
DiscountAmount(subtotal, discount_percentage) ==
    (subtotal * discount_percentage) \div 100

TotalAmount(subtotal, discount_percentage) ==
    subtotal - DiscountAmount(subtotal, discount_percentage)

\* The sales row both handlers insert (lines 186-203 and 574-591).
SaleRow(company_id, customer_id, sale_type, original_sale_id, location_id, subtotal, discount_percentage) ==
    [company_id |-> company_id, customer_id |-> customer_id,
     sale_type |-> sale_type, original_sale_id |-> original_sale_id,
     storage_location_id |-> location_id,
     subtotal |-> subtotal,
     discount_percentage |-> discount_percentage,
     discount_amount |-> DiscountAmount(subtotal, discount_percentage),
     total_amount |-> TotalAmount(subtotal, discount_percentage),
     payment_status |-> "unpaid",
     amount_paid |-> 0,
     amount_due |-> TotalAmount(subtotal, discount_percentage)]

\* The sale_items row of one line (lines 216-227 and 604-615).
SaleItemRow(sale_id, line, discount_percentage) ==
    LET item_subtotal == line.quantity * Hundredths(line.unit_price)
        item_discount_amount == (item_subtotal * discount_percentage) \div 100
    IN  [sale_id |-> sale_id,
         product_variant_id |-> line.product_variant_id,
         quantity |-> line.quantity,
         unit_price |-> line.unit_price,
         discount_percentage |-> discount_percentage,
         discount_amount |-> item_discount_amount,
         line_total |-> item_subtotal - item_discount_amount]

\* The loop over the lines: each inserts its sale_items row, writes the
\* stock and appends to the log.  st = [items, log, sale_items].
RECURSIVE WriteLines(_, _, _, _, _, _, _)
WriteLines(st, lines, company_id, location_id, sale_id, discount_percentage, is_credit_note) ==
    IF lines = <<>> THEN st
    ELSE LET line == Head(lines) IN
         WriteLines(
           [items |-> SaleItemsAfter(st.items, company_id,
                                     line.product_variant_id, location_id,
                                     line.quantity, is_credit_note),
            log |-> Append(st.log,
                           SaleTxn(company_id, line.product_variant_id,
                                   location_id, line.quantity, sale_id,
                                   is_credit_note)),
            sale_items |-> Append(st.sale_items,
                                  SaleItemRow(sale_id, line,
                                              discount_percentage))],
           Tail(lines), company_id, location_id, sale_id,
           discount_percentage, is_credit_note)

-----------------------------------------------------------------------------
(* sales.py, create_sale (CreateSale).                                     *)

\* Lines 133-155: some line of positive quantity has too little stock.
StockShort(items, location_id, lines) ==
    \E k \in DOMAIN lines :
        /\ lines[k].quantity > 0
        /\ ~check_stock_availability(items, lines[k].product_variant_id,
                                     location_id, lines[k].quantity)

\* Variant: the credit check leaves the new sale out of the balance.
CreditExceededOnBalance(customer, total_amount) ==
    /\ customer.customer_type # "walk-in"
    /\ customer.current_balance > customer.credit_limit

\* Lines 167-175: the credit check, skipped for walk-in customers.
CreditExceeded(customer, total_amount) ==
    /\ customer.customer_type # "walk-in"
    /\ customer.current_balance + total_amount > customer.credit_limit

\* Variant: the credit check runs before the stock check.
CreateSaleErrorCreditFirst(company_id, customer_id, location_id, lines) ==
    IF \/ customer_id \notin DOMAIN customers
       \/ customers[customer_id].company_id # company_id
    THEN "NotFound"
    ELSE IF \/ location_id \notin Locations
            \/ storage_locations[location_id].company_id # company_id
    THEN "NotFound"
    ELSE IF CreditExceeded(customers[customer_id],
                           TotalAmount(Subtotal(lines),
                                       tier_discount(customers[customer_id])))
    THEN "CreditLimitExceeded"
    ELSE IF StockShort(inventory_items, location_id, lines)
    THEN "InsufficientStock"
    ELSE "ok"

\* The first validation of create_sale that fails, "ok" when none does.
CreateSaleError(company_id, customer_id, location_id, lines) ==
    IF \/ customer_id \notin DOMAIN customers
       \/ customers[customer_id].company_id # company_id
    THEN "NotFound"
    ELSE IF \/ location_id \notin Locations
            \/ storage_locations[location_id].company_id # company_id
    THEN "NotFound"
    ELSE IF StockShort(inventory_items, location_id, lines)
    THEN "InsufficientStock"
    ELSE IF CreditExceeded(customers[customer_id],
                           TotalAmount(Subtotal(lines),
                                       tier_discount(customers[customer_id])))
    THEN "CreditLimitExceeded"
    ELSE "ok"

\* Lines 190-191: the row takes the request's sale_type and original_sale_id as
\* they are given; the stock is written with is_credit_note left False.
create_sale(company_id, customer_id, location_id, sale_type, lines, original_sale_id) ==
    LET err == CreateSaleError(company_id, customer_id, location_id, lines)
    IN
    IF err # "ok"
    THEN /\ Respond("create_sale", err)
         /\ UNCHANGED <<inventoryVars, salesVars, expenseVars>>
    ELSE LET customer == customers[customer_id]
             discount_percentage == tier_discount(customer)
             row == SaleRow(company_id, customer_id, sale_type,
                            original_sale_id, location_id, Subtotal(lines),
                            discount_percentage)
             sale_id == Len(sales) + 1
             st == WriteLines([items |-> inventory_items,
                               log |-> inventory_transactions,
                               sale_items |-> sale_items],
                              lines, company_id, location_id, sale_id,
                              discount_percentage, FALSE)
         IN  /\ Len(sales) < MaxSales
             /\ Len(st.log) <= MaxTxns
             /\ WithinStock(st.items)
             /\ sales' = Append(sales, row)
             /\ sale_items' = st.sale_items
             /\ inventory_items' = st.items
             /\ inventory_transactions' = st.log
             /\ customers' =
                  [customers EXCEPT ![customer_id].current_balance =
                       customer.current_balance + row.total_amount]
             /\ Respond("create_sale", "ok")
             /\ UNCHANGED <<sale_payments, expenseVars>>

-----------------------------------------------------------------------------
(* sales.py, create_credit_note (CreateCreditNote).                        *)

\* original_items: the ids of the sale_items rows of the original sale.
OriginalItems(original_sale_id) ==
    {i \in DOMAIN sale_items : sale_items[i].sale_id = original_sale_id}

\* Variant: a return line is only checked against the lines of the original.
ReturnErrorAnyQuantity(original_sale_id, returns) ==
    IF \E k \in DOMAIN returns :
         returns[k].sale_item_id \notin OriginalItems(original_sale_id)
    THEN "NotFound" ELSE "ok"

\* Lines 533-558: the first return line that fails, "ok" when none does.
RECURSIVE ReturnError(_, _)
ReturnError(original_sale_id, returns) ==
    IF returns = <<>> THEN "ok"
    ELSE LET return_item == Head(returns) IN
         IF return_item.sale_item_id \notin OriginalItems(original_sale_id)
         THEN "NotFound"
         ELSE IF return_item.return_quantity >
                   sale_items[return_item.sale_item_id].quantity
         THEN "InvalidQuantity"
         ELSE ReturnError(original_sale_id, Tail(returns))

\* Variant: the credit note takes back the whole quantity of each line.
CreditNoteItemsWhole(returns) ==
    [k \in DOMAIN returns |->
        LET original_item == sale_items[returns[k].sale_item_id] IN
        [product_variant_id |-> original_item.product_variant_id,
         quantity |-> -original_item.quantity,
         unit_price |-> original_item.unit_price]]

\* credit_note_items: the negated lines, priced as the original lines.
CreditNoteItems(returns) ==
    [k \in DOMAIN returns |->
        LET original_item == sale_items[returns[k].sale_item_id] IN
        [product_variant_id |-> original_item.product_variant_id,
         quantity |-> -returns[k].return_quantity,
         unit_price |-> original_item.unit_price]]

create_credit_note(company_id, original_sale_id, returns) ==
    IF \/ original_sale_id \notin DOMAIN sales
       \/ sales[original_sale_id].company_id # company_id
    THEN /\ Respond("create_credit_note", "NotFound")
         /\ UNCHANGED <<inventoryVars, salesVars, expenseVars>>
    ELSE IF sales[original_sale_id].sale_type # "invoice"
    THEN /\ Respond("create_credit_note", "InvalidOperation")
         /\ UNCHANGED <<inventoryVars, salesVars, expenseVars>>
    ELSE IF ReturnError(original_sale_id, returns) # "ok"
    THEN /\ Respond("create_credit_note",
                            ReturnError(original_sale_id, returns))
         /\ UNCHANGED <<inventoryVars, salesVars, expenseVars>>
    ELSE LET original_sale == sales[original_sale_id]
             customer == customers[original_sale.customer_id]
             discount_percentage == tier_discount(customer)
             lines == CreditNoteItems(returns)
             row == SaleRow(company_id, original_sale.customer_id,
                            "credit_note", original_sale_id,
                            original_sale.storage_location_id,
                            Subtotal(lines), discount_percentage)
             credit_note_id == Len(sales) + 1
             st == WriteLines([items |-> inventory_items,
                               log |-> inventory_transactions,
                               sale_items |-> sale_items],
                              lines, company_id,
                              original_sale.storage_location_id,
                              credit_note_id, discount_percentage, TRUE)
         IN  /\ Len(sales) < MaxSales
             /\ Len(inventory_transactions) < MaxTxns
             /\ WithinStock(st.items)
             /\ sales' = Append(sales, row)
             /\ sale_items' = st.sale_items
             /\ inventory_items' = st.items
             /\ inventory_transactions' = st.log
             /\ customers' =
                  [customers EXCEPT
                     ![original_sale.customer_id].current_balance =
                         customer.current_balance + row.total_amount]
             /\ Respond("create_credit_note", "ok")
             /\ UNCHANGED <<sale_payments, expenseVars>>

-----------------------------------------------------------------------------
(* sales.py, record_payment (RecordPayment on a sale).                     *)

\* Lines 655-666: the method and reference number go together.
ReferenceError(payment_method, reference_number) ==
    \/ payment_method \in {"mpesa", "bank", "card"}
          /\ reference_number = None
    \/ payment_method = "cash" /\ reference_number # None

\* Variant: the amount due is written back as it was read.
NewAmountDueKept(amount_due, amount) == amount_due

NewAmountPaid(amount_paid, amount) == amount_paid + amount
NewAmountDue(amount_due, amount) == amount_due - amount

\* Variant: a sale counts as paid only when it is overpaid.
NewPaymentStatusStrict(new_amount_paid, new_amount_due) ==
    IF new_amount_due < 0 THEN "paid"
    ELSE IF new_amount_paid > 0 THEN "partial"
    ELSE "unpaid"

\* Lines 712-717.
NewPaymentStatus(new_amount_paid, new_amount_due) ==
    IF new_amount_due <= 0 THEN "paid"
    ELSE IF new_amount_paid > 0 THEN "partial"
    ELSE "unpaid"

\* Variant: the comparison with the amount due is turned around.
ExceedsDueFlipped(amount, amount_due) == amount < amount_due

\* Lines 684-689, and expenses.py lines 420-424.
ExceedsDue(amount, amount_due) == amount > amount_due

\* A payment that leaves the customer's balance as it was.
new_customer_balance_kept(current_balance, amount) == current_balance

\* sales.py 729: the customer's balance after a payment.
new_customer_balance(current_balance, amount) == current_balance - amount

record_payment(company_id, sale_id, amount, payment_method, reference_number) ==
    IF ReferenceError(payment_method, reference_number)
    THEN /\ Respond("record_payment", "ValidationError")
         /\ UNCHANGED <<inventoryVars, salesVars, expenseVars>>
    ELSE IF \/ sale_id \notin DOMAIN sales
            \/ sales[sale_id].company_id # company_id
    THEN /\ Respond("record_payment", "NotFound")
         /\ UNCHANGED <<inventoryVars, salesVars, expenseVars>>
    ELSE IF ExceedsDue(amount, sales[sale_id].amount_due)
    THEN /\ Respond("record_payment", "ExceedsAmountDue")
         /\ UNCHANGED <<inventoryVars, salesVars, expenseVars>>
    ELSE LET sale == sales[sale_id]
             customer == customers[sale.customer_id]
             new_amount_paid == NewAmountPaid(sale.amount_paid, amount)
             new_amount_due == NewAmountDue(sale.amount_due, amount)
         IN  /\ Len(sale_payments) < MaxPayments
             /\ sale_payments' =
                  Append(sale_payments,
                         [sale_id |-> sale_id, amount |-> amount,
                          payment_method |-> payment_method,
                          reference_number |-> reference_number])
             /\ sales' = [sales EXCEPT
                            ![sale_id].amount_paid = new_amount_paid,
                            ![sale_id].amount_due = new_amount_due,
                            ![sale_id].payment_status =
                                NewPaymentStatus(new_amount_paid,
                                                 new_amount_due)]
             /\ customers' =
                  [customers EXCEPT ![sale.customer_id].current_balance =
                       new_customer_balance(customer.current_balance,
                                            amount)]
             /\ Respond("record_payment", "ok")
             /\ UNCHANGED <<inventoryVars, sale_items, expenseVars>>

-----------------------------------------------------------------------------
(* customers.py, create_customer and update_customer.                      *)

\* The id the database gives the row create_customer inserts.
NewCustomerId == "c3"

\* Lines 57-64: the id of the company's default tier, None without one.
DefaultTier(company_id) ==
    LET d == {t \in Tiers : /\ customer_tiers[t].company_id = company_id
                            /\ customer_tiers[t].is_default}
    IN  IF d = {} THEN None ELSE CHOOSE t \in d : TRUE

\* Lines 28-84.  The inserted row leaves current_balance and is_default to
\* the column defaults, 0 and false.
create_customer(company_id, customer_type, payment_term_id, customer_tier_id, credit_limit) ==
    IF /\ payment_term_id # None
       /\ \/ payment_term_id \notin DOMAIN payment_terms
          \/ payment_terms[payment_term_id].company_id # company_id
    THEN /\ Respond("create_customer", "NotFound")
         /\ UNCHANGED <<inventoryVars, salesVars, expenseVars>>
    ELSE IF /\ customer_tier_id # None
            /\ \/ customer_tier_id \notin Tiers
               \/ customer_tiers[customer_tier_id].company_id # company_id
    THEN /\ Respond("create_customer", "NotFound")
         /\ UNCHANGED <<inventoryVars, salesVars, expenseVars>>
    ELSE /\ NewCustomerId \notin DOMAIN customers
         /\ customers' = customers @@
              (NewCustomerId :>
                 [company_id |-> company_id,
                  customer_type |-> customer_type,
                  credit_limit |-> credit_limit,
                  current_balance |-> 0,
                  customer_tier_id |->
                     IF customer_tier_id # None THEN customer_tier_id
                     ELSE DefaultTier(company_id),
                  is_default |-> FALSE])
         /\ Respond("create_customer", "ok")
         /\ UNCHANGED <<inventoryVars, sales, sale_items, sale_payments,
                        expenseVars>>

\* Lines 195-239.  update_data holds the fields the request sets
\* (model_dump(exclude_unset=True)): a function from their names to their
\* values, empty for a request that sets none.
update_customer(company_id, customer_id, update_data) ==
    IF \/ customer_id \notin DOMAIN customers
       \/ customers[customer_id].company_id # company_id
    THEN /\ Respond("update_customer", "NotFound")
         /\ UNCHANGED <<inventoryVars, salesVars, expenseVars>>
    ELSE IF /\ customers[customer_id].is_default
            /\ "customer_type" \in DOMAIN update_data
            /\ update_data.customer_type # "walk-in"
    THEN /\ Respond("update_customer", "DefaultCustomerType")
         /\ UNCHANGED <<inventoryVars, salesVars, expenseVars>>
    ELSE IF DOMAIN update_data = {}
    THEN /\ Respond("update_customer", "NoFields")
         /\ UNCHANGED <<inventoryVars, salesVars, expenseVars>>
    ELSE /\ customers' =
              [customers EXCEPT ![customer_id] =
                 [f \in DOMAIN @ |-> IF f \in DOMAIN update_data
                                     THEN update_data[f] ELSE @[f]]]
         /\ Respond("update_customer", "ok")
         /\ UNCHANGED <<inventoryVars, sales, sale_items, sale_payments,
                        expenseVars>>

-----------------------------------------------------------------------------
(* expenses.py, create_expense (CreateExpense) for a request that is not   *)
(* recurring and names no supplier, and record_expense_payment.            *)

\* A date is its proleptic Gregorian ordinal (date.toordinal()).  A date
\* column holds the date that the ISO text written to it names.
NoDate == 0                    \* a date that is not given
\* schemas/expenses.py, line 70: a request that gives no expense_date takes
\* date.today(), here the first day of the explorations.
today == 738000

\* Amounts are whole numbers, on which float(Decimal) and Decimal(str(float))
\* are exact.
to_float(value) == value

expense_categories ==
    ("cat1" :> [company_id |-> "co1", expense_type |-> "standard",
                is_active |-> TRUE]) @@
    ("cat2" :> [company_id |-> "co1", expense_type |-> "sales",
                is_active |-> TRUE])

\* The first validation of create_expense that fails, "ok" when none does.
CreateExpenseError(company_id, expense_category_id, expense_type, sale_id) ==
    IF \/ expense_category_id \notin DOMAIN expense_categories
       \/ expense_categories[expense_category_id].company_id # company_id
       \/ ~expense_categories[expense_category_id].is_active
    THEN "NotFound"
    ELSE IF expense_categories[expense_category_id].expense_type
              # expense_type
    THEN "ValidationError"
    ELSE IF expense_type = "sales" /\ sale_id = NoId
    THEN "ValidationError"
    ELSE IF /\ sale_id # NoId
            /\ \/ sale_id \notin DOMAIN sales
               \/ sales[sale_id].company_id # company_id
    THEN "NotFound"
    ELSE "ok"

create_expense(company_id, expense_category_id, expense_type, amount, sale_id) ==
    LET err == CreateExpenseError(company_id, expense_category_id,
                                  expense_type, sale_id) IN
    IF err # "ok"
    THEN /\ Respond("create_expense", err)
         /\ UNCHANGED <<inventoryVars, salesVars, expenseVars>>
    ELSE /\ Len(expenses) < MaxExpenses
         /\ expenses' =
              Append(expenses,
                     [company_id |-> company_id,
                      expense_category_id |-> expense_category_id,
                      expense_type |-> expense_type,
                      title |-> "title",
                      description |-> None,
                      amount |-> to_float(amount),
                      supplier_id |-> None,
                      sale_id |-> sale_id,
                      payment_status |-> "unpaid",
                      amount_paid |-> 0,
                      amount_due |-> to_float(amount),
                      is_recurring |-> FALSE,
                      expense_date |-> today,
                      notes |-> None,
                      parent_expense_id |-> NoId])
         /\ Respond("create_expense", "ok")
         /\ UNCHANGED <<inventoryVars, salesVars, expense_payments>>

\* Lines 426-431: only a missing reference number is refused.
ExpenseReferenceError(payment_method, reference_number) ==
    /\ payment_method \in {"mpesa", "bank", "card"}
    /\ reference_number = None

record_expense_payment(company_id, expense_id, amount, payment_method, reference_number) ==
    IF \/ expense_id \notin DOMAIN expenses
       \/ expenses[expense_id].company_id # company_id
    THEN /\ Respond("record_expense_payment", "NotFound")
         /\ UNCHANGED <<inventoryVars, salesVars, expenseVars>>
    ELSE IF ExceedsDue(amount, expenses[expense_id].amount_due)
    THEN /\ Respond("record_expense_payment", "ExceedsAmountDue")
         /\ UNCHANGED <<inventoryVars, salesVars, expenseVars>>
    ELSE IF ExpenseReferenceError(payment_method, reference_number)
    THEN /\ Respond("record_expense_payment", "ValidationError")
         /\ UNCHANGED <<inventoryVars, salesVars, expenseVars>>
    ELSE LET expense == expenses[expense_id]
             new_amount_paid == NewAmountPaid(expense.amount_paid, amount)
             new_amount_due == NewAmountDue(expense.amount_due, amount)
         IN  /\ Len(expense_payments) < MaxPayments
             /\ expense_payments' =
                  Append(expense_payments,
                         [company_id |-> company_id,
                          expense_id |-> expense_id,
                          amount |-> to_float(amount),
                          payment_method |-> payment_method,
                          reference_number |-> reference_number])
             /\ expenses' = [expenses EXCEPT
                  ![expense_id].amount_paid = to_float(new_amount_paid),
                  ![expense_id].amount_due = to_float(new_amount_due),
                  ![expense_id].payment_status =
                      NewPaymentStatus(new_amount_paid, new_amount_due)]
             /\ Respond("record_expense_payment", "ok")
             /\ UNCHANGED <<inventoryVars, salesVars>>

-----------------------------------------------------------------------------
(* expenses.py, generate_recurring_dates and create_expense for a request  *)
(* with is_recurring set.  On the ordinal of a date, timedelta(days=n) is  *)
(* the addition of n.                                                      *)

NoDay  == -1                   \* recurrence_day_of_week, _of_month not given
max_occurrences == 12

\* date.weekday(): Monday is 0; ordinal 1 is a Monday.
weekday(d) == (d + 6) % 7

\* calendar.monthrange(year, month)[1], the number of days of the month.
monthrange(year, month) ==
    LET isleap == year % 4 = 0 /\ (year % 100 # 0 \/ year % 400 = 0) IN
    IF month = 2 THEN (IF isleap THEN 29 ELSE 28)
    ELSE IF month \in {4, 6, 9, 11} THEN 30
    ELSE 31

\* The days before the first of the year, and before the first of the
\* month within the year.
DaysBeforeYear(year) ==
    LET y == year - 1 IN y * 365 + y \div 4 - y \div 100 + y \div 400

RECURSIVE DaysBeforeMonth(_, _)
DaysBeforeMonth(year, month) ==
    IF month = 1 THEN 0
    ELSE DaysBeforeMonth(year, month - 1) + monthrange(year, month - 1)

\* date(year, month, day), and the year and month of a date.
date(year, month, day) ==
    DaysBeforeYear(year) + DaysBeforeMonth(year, month) + day

YearOf(d) ==
    CHOOSE y \in (d \div 366)..(d \div 365 + 1) :
        DaysBeforeYear(y) < d /\ d <= DaysBeforeYear(y + 1)

MonthOf(d) ==
    LET y == YearOf(d)
        n == d - DaysBeforeYear(y)
    IN  CHOOSE m \in 1..12 :
            /\ DaysBeforeMonth(y, m) < n
            /\ n <= DaysBeforeMonth(y, m) + monthrange(y, m)

\* Lines 39-42.
Boundary(start_date, end_date) ==
    IF end_date # NoDate
    THEN Min({end_date, start_date + 365})
    ELSE start_date + 365

DaysAheadSameDay(start_date, day_of_week) ==
    LET days_ahead == day_of_week - weekday(start_date) IN
    IF days_ahead < 0 THEN days_ahead + 7 ELSE days_ahead

\* Lines 45-47.
DaysAhead(start_date, day_of_week) ==
    LET days_ahead == day_of_week - weekday(start_date) IN
    IF days_ahead <= 0 THEN days_ahead + 7 ELSE days_ahead

\* Lines 50-52: the loop that collects the dates, one week apart.
RECURSIVE WeeklyDates(_, _, _)
WeeklyDates(dates, current, boundary) ==
    IF current <= boundary /\ Len(dates) < max_occurrences
    THEN WeeklyDates(Append(dates, current), current + 7, boundary)
    ELSE dates

\* Lines 55-73: the loop over the months that follow, rounds of it left to
\* run; the day is the day_of_month or the last day of a shorter month, and
\* the loop ends at the first date past the boundary.
RECURSIVE MonthlyDates(_, _, _, _, _, _)
MonthlyDates(dates, year, month, day_of_month, boundary, rounds) ==
    IF rounds = 0 THEN dates
    ELSE LET next_month == IF month + 1 > 12 THEN 1 ELSE month + 1
             next_year == IF month + 1 > 12 THEN year + 1 ELSE year
             last_day == monthrange(next_year, next_month)
             actual_day == Min({day_of_month, last_day})
             next_date == date(next_year, next_month, actual_day)
         IN  IF next_date > boundary THEN dates
             ELSE MonthlyDates(Append(dates, next_date), next_year,
                               next_month, day_of_month, boundary,
                               rounds - 1)

\* Lines 27-75.
generate_recurring_dates(start_date, frequency, day_of_week, day_of_month, end_date) ==
    LET boundary == Boundary(start_date, end_date) IN
    IF frequency = "weekly"
    THEN WeeklyDates(<<>>, start_date + DaysAhead(start_date, day_of_week),
                     boundary)
    ELSE IF frequency = "monthly"
    THEN MonthlyDates(<<>>, YearOf(start_date), MonthOf(start_date),
                      day_of_month, boundary, max_occurrences)
    ELSE <<>>

\* Lines 144-160: the recurring fields of the request.
RecurringError(frequency, day_of_week, day_of_month) ==
    \/ frequency = None
    \/ frequency = "weekly" /\ day_of_week = NoDay
    \/ frequency = "monthly" /\ day_of_month = NoDay

\* Lines 162-182: expense_record, the parent row of a recurring expense.
ExpenseRecord(company_id, expense_category_id, expense_type, amount, sale_id, expense_date, frequency, day_of_week, day_of_month, end_date) ==
    [company_id |-> company_id,
     expense_category_id |-> expense_category_id,
     expense_type |-> expense_type,
     title |-> "title",
     description |-> None,
     amount |-> to_float(amount),
     supplier_id |-> None,
     sale_id |-> sale_id,
     payment_status |-> "unpaid",
     amount_paid |-> 0,
     amount_due |-> to_float(amount),
     is_recurring |-> TRUE,
     recurrence_frequency |-> frequency,
     recurrence_day_of_week |-> day_of_week,
     recurrence_day_of_month |-> day_of_month,
     recurrence_end_date |-> end_date,
     expense_date |-> expense_date,
     notes |-> None,
     parent_expense_id |-> NoId]

\* Lines 207-214: child_record, the row of one recurring date.
ChildRecord(expense_record, parent_id, recurring_date) ==
    [expense_record EXCEPT !.expense_date = recurring_date,
                           !.parent_expense_id = parent_id,
                           !.payment_status = "unpaid",
                           !.amount_paid = 0,
                           !.amount_due = expense_record.amount]

-----------------------------------------------------------------------------
(* inventory_items.py, update_inventory_item and delete_inventory_item.    *)
(* A row's id is its place in the table.  A deleted row leaves its place   *)
(* behind, holding no company, variant or location, so that the ids of the *)
(* other rows stay what they were and no lookup finds it.                  *)

DeletedItem == [company_id |-> None, product_variant_id |-> None,
                storage_location_id |-> None, quantity |-> 0]

DeletedItems(items) == {i \in DOMAIN items : items[i] = DeletedItem}

\* .eq("id", item_id).eq("company_id", company["id"]): the row both
\* handlers address, 0 when there is none.
OwnItem(items, company_id, item_id) ==
    IF /\ item_id \in DOMAIN items
       /\ items[item_id].company_id = company_id
    THEN item_id ELSE 0

\* Lines 167-185.  update_data holds the fields the request sets
\* (model_dump(exclude_unset=True)); quantity is written as it is given,
\* and nothing is appended to inventory_transactions.
update_inventory_item(company_id, item_id, update_data) ==
    IF DOMAIN update_data = {}
    THEN /\ Respond("update_inventory_item", "NoFields")
         /\ UNCHANGED <<inventoryVars, salesVars, expenseVars>>
    ELSE IF OwnItem(inventory_items, company_id, item_id) = 0
    THEN /\ Respond("update_inventory_item", "NotFound")
         /\ UNCHANGED <<inventoryVars, salesVars, expenseVars>>
    ELSE /\ inventory_items' =
              [inventory_items EXCEPT ![item_id] =
                 [f \in DOMAIN @ |-> IF f \in DOMAIN update_data
                                     THEN update_data[f] ELSE @[f]]]
         /\ Respond("update_inventory_item", "ok")
         /\ UNCHANGED <<inventory_transactions, salesVars, expenseVars>>

\* Lines 206-216: the row is removed; nothing is appended to
\* inventory_transactions.
delete_inventory_item(company_id, item_id) ==
    IF OwnItem(inventory_items, company_id, item_id) = 0
    THEN /\ Respond("delete_inventory_item", "NotFound")
         /\ UNCHANGED <<inventoryVars, salesVars, expenseVars>>
    ELSE /\ Cardinality(DeletedItems(inventory_items)) < MaxDeleted
         /\ inventory_items' =
              [inventory_items EXCEPT ![item_id] = DeletedItem]
         /\ Respond("delete_inventory_item", "ok")
         /\ UNCHANGED <<inventory_transactions, salesVars, expenseVars>>

-----------------------------------------------------------------------------
(* The handlers one database call at a time.  The database is a service    *)
(* the handlers reach by independent calls, with no transaction around     *)
(* them: a request served by one worker can run between any two calls of a *)
(* request served by another.  A step is one call with the computation     *)
(* that follows it.  Reads of the fixed reference tables (variants,         *)
(* locations, tiers) are taken with the step of the request's first read.  *)
(* A handler that makes a single call on the tables that change (the        *)
(* update and the delete of an inventory item) is one step as it is.       *)

Workers == {"w1", "w2"}

\* A request in flight: the handler, the place it has reached, the request
\* and what the handler has read so far.  lines are the items of a sale or
\* the credit_note_items of a credit note, k the place of a loop in them
\* or in the recurring_dates of a recurring expense.
Idle ==
    [pc |-> "idle", op |-> "none", company_id |-> None, req |-> None,
     customer |-> None, sale |-> None, lines |-> <<>>, k |-> 0,
     discount |-> 0, new_id |-> NoId, item |-> NoId, current_qty |-> 0,
     expense |-> None, recurring_dates |-> <<>>]

IsCreditNote(c) == c.op = "create_credit_note"

Goto(w, c) ==
    /\ calls' = [calls EXCEPT ![w] = c]
    /\ UNCHANGED last

Finish(w, status) ==
    /\ calls' = [calls EXCEPT ![w] = Idle]
    /\ last' = Outcome(calls[w].op, status)

\* Rows that requests in flight have yet to insert.
Pending(pcs) == Cardinality({w \in Workers : calls[w].pc \in pcs})
BeforeSaleInsert == {"sale_check", "note_items", "sale_insert"}
BeforeStockLog ==
    BeforeSaleInsert \cup {"item_insert", "stock_read", "stock_write",
                           "stock_log", "ledger_read", "ledger_write",
                           "ledger_log", "reversal_check", "reverse_read",
                           "reverse_write", "reverse_log"}
RoomForSale == Len(sales) + Pending(BeforeSaleInsert) < MaxSales
RoomForTxn == Len(inventory_transactions) + Pending(BeforeStockLog) < MaxTxns
RoomForPayment == Len(sale_payments) + Pending({"pay_insert"}) < MaxPayments

\* .update({"quantity": new_qty}).eq("id", id): the row of that id is
\* written; when the row has been deleted since it was read the update
\* matches no row and writes nothing.
WriteQuantity(items, item_id, new_qty) ==
    IF items[item_id] = DeletedItem THEN items
    ELSE [items EXCEPT ![item_id].quantity = new_qty]

\* create_sale, line 135: the first line at or after place k that has its
\* stock checked, 0 when there is none.
NextChecked(lines, k) ==
    LET later == {j \in DOMAIN lines : j >= k /\ lines[j].quantity > 0}
    IN  IF later = {} THEN 0 ELSE Min(later)

\* Lines 157-175: the totals of the request and the credit check, computed
\* from the customer row read at the start.
SaleCredit(w, c) ==
    IF CreditExceeded(c.customer, TotalAmount(Subtotal(c.lines), c.discount))
    THEN /\ calls' = [calls EXCEPT ![w] = Idle]
         /\ last' = Outcome("create_sale", "CreditLimitExceeded")
    ELSE Goto(w, [c EXCEPT !.pc = "sale_insert"])

\* create_sale, lines 103-131: the customer with its tier, and the location.
\* A request with no line of positive quantity makes no stock check and
\* goes on to the credit check.
BeginSale(w, company_id, customer_id, location_id, lines, sale_type, original_sale_id) ==
    LET c == [Idle EXCEPT !.op = "create_sale", !.company_id = company_id,
                          !.req = [customer_id |-> customer_id,
                                   location_id |-> location_id,
                                   sale_type |-> sale_type,
                                   original_sale_id |-> original_sale_id],
                          !.lines = lines]
    IN  /\ calls[w].pc = "idle"
        /\ RoomForSale /\ RoomForTxn
        /\ UNCHANGED <<inventoryVars, salesVars, expenseVars>>
        /\ IF \/ customer_id \notin DOMAIN customers
              \/ customers[customer_id].company_id # company_id
              \/ location_id \notin Locations
              \/ storage_locations[location_id].company_id # company_id
           THEN /\ calls' = calls
                /\ last' = Outcome("create_sale", "NotFound")
           ELSE LET read == [c EXCEPT
                               !.customer = customers[customer_id],
                               !.discount =
                                   tier_discount(customers[customer_id])]
                IN  IF NextChecked(lines, 1) # 0
                    THEN Goto(w, [read EXCEPT !.pc = "sale_check",
                                              !.k = NextChecked(lines, 1)])
                    ELSE SaleCredit(w, read)

\* Lines 134-155: check_stock_availability reads the inventory item of the
\* line at place k; after the last line checked come the totals and the
\* credit check.
SaleCheck(w) ==
    LET c == calls[w]
        line == c.lines[c.k]
        next == NextChecked(c.lines, c.k + 1)
    IN  /\ c.pc = "sale_check"
        /\ UNCHANGED <<inventoryVars, salesVars, expenseVars>>
        /\ IF ~check_stock_availability(inventory_items,
                                        line.product_variant_id,
                                        c.req.location_id, line.quantity)
           THEN Finish(w, "InsufficientStock")
           ELSE IF next # 0
           THEN Goto(w, [c EXCEPT !.k = next])
           ELSE SaleCredit(w, c)

\* create_credit_note, lines 495-519: the original sale with its customer.
BeginCreditNote(w, company_id, original_sale_id, returns) ==
    LET c == [Idle EXCEPT !.op = "create_credit_note",
                          !.company_id = company_id,
                          !.req = [original_sale_id |-> original_sale_id,
                                   returns |-> returns]]
    IN  /\ calls[w].pc = "idle"
        /\ RoomForSale /\ RoomForTxn
        /\ UNCHANGED <<inventoryVars, salesVars, expenseVars>>
        /\ IF \/ original_sale_id \notin DOMAIN sales
              \/ sales[original_sale_id].company_id # company_id
           THEN /\ calls' = calls
                /\ last' = Outcome("create_credit_note", "NotFound")
           ELSE IF sales[original_sale_id].sale_type # "invoice"
           THEN /\ calls' = calls
                /\ last' = Outcome("create_credit_note", "InvalidOperation")
           ELSE LET original_sale == sales[original_sale_id]
                    customer == customers[original_sale.customer_id]
                IN  Goto(w, [c EXCEPT
                               !.pc = "note_items",
                               !.sale = original_sale,
                               !.customer = customer,
                               !.discount = tier_discount(customer)])

\* Lines 521-558: the lines of the original sale, and the return lines
\* checked against them.
NoteItems(w) ==
    LET c == calls[w]
        err == ReturnError(c.req.original_sale_id, c.req.returns)
    IN  /\ c.pc = "note_items"
        /\ UNCHANGED <<inventoryVars, salesVars, expenseVars>>
        /\ IF err # "ok"
           THEN Finish(w, err)
           ELSE Goto(w, [c EXCEPT
                           !.pc = "sale_insert",
                           !.lines = CreditNoteItems(c.req.returns)])

\* Lines 186-203 and 574-591: the sales row.
SaleInsert(w) ==
    LET c == calls[w]
        row == IF IsCreditNote(c)
               THEN SaleRow(c.company_id, c.sale.customer_id, "credit_note",
                            c.req.original_sale_id,
                            c.sale.storage_location_id,
                            Subtotal(c.lines), c.discount)
               ELSE SaleRow(c.company_id, c.req.customer_id,
                            c.req.sale_type, c.req.original_sale_id,
                            c.req.location_id,
                            Subtotal(c.lines), c.discount)
    IN  /\ c.pc = "sale_insert"
        /\ sales' = Append(sales, row)
        /\ Goto(w, [c EXCEPT !.pc = "item_insert", !.sale = row,
                             !.new_id = Len(sales) + 1, !.k = 1])
        /\ UNCHANGED <<inventoryVars, customers, sale_items, sale_payments,
                       expenseVars>>

\* Lines 216-227 and 604-615: the sale_items row of the line at place k.
ItemInsert(w) ==
    LET c == calls[w] IN
    /\ c.pc = "item_insert"
    /\ sale_items' = Append(sale_items,
                            SaleItemRow(c.new_id, c.lines[c.k], c.discount))
    /\ Goto(w, [c EXCEPT !.pc = "stock_read"])
    /\ UNCHANGED <<inventoryVars, customers, sales, sale_payments,
                   expenseVars>>

\* update_inventory_from_sale, lines 52-56: the inventory item.
StockRead(w) ==
    LET c == calls[w]
        i == FirstItem(inventory_items, c.lines[c.k].product_variant_id,
                       c.sale.storage_location_id)
    IN  /\ c.pc = "stock_read"
        /\ Goto(w, [c EXCEPT !.pc = "stock_write", !.item = i,
                             !.current_qty = IF i = 0 THEN 0
                                             ELSE inventory_items[i].quantity])
        /\ UNCHANGED <<inventoryVars, salesVars, expenseVars>>

\* Lines 58-76: the quantity computed from the row read, written by id; a
\* credit note inserts the row it did not find.
StockWrite(w) ==
    LET c == calls[w]
        line == c.lines[c.k]
    IN  /\ c.pc = "stock_write"
        /\ inventory_items' =
             IF c.item # 0
             THEN WriteQuantity(inventory_items, c.item,
                                SaleNewQty(c.current_qty, line.quantity,
                                           IsCreditNote(c)))
             ELSE IF IsCreditNote(c)
                  THEN Append(inventory_items,
                              [company_id |-> c.company_id,
                               product_variant_id |-> line.product_variant_id,
                               storage_location_id |->
                                   c.sale.storage_location_id,
                               quantity |-> abs(line.quantity)])
                  ELSE inventory_items
        /\ Goto(w, [c EXCEPT !.pc = "stock_log"])
        /\ UNCHANGED <<inventory_transactions, salesVars, expenseVars>>

\* Lines 78-92: the inventory transaction of the line; then the next line
\* of the loop (lines 215 and 603), or the balance.
StockLog(w) ==
    LET c == calls[w]
        line == c.lines[c.k]
    IN  /\ c.pc = "stock_log"
        /\ inventory_transactions' =
             Append(inventory_transactions,
                    SaleTxn(c.company_id, line.product_variant_id,
                            c.sale.storage_location_id, line.quantity,
                            c.new_id, IsCreditNote(c)))
        /\ IF c.k < Len(c.lines)
           THEN Goto(w, [c EXCEPT !.pc = "item_insert", !.k = c.k + 1])
           ELSE Goto(w, [c EXCEPT !.pc = "balance"])
        /\ UNCHANGED <<inventory_items, salesVars, expenseVars>>

\* Lines 240-245 and 629-634: the balance read with the customer, plus the
\* total of the sale, written to the customer.
BalanceWrite(w) ==
    LET c == calls[w] IN
    /\ c.pc = "balance"
    /\ customers' =
         [customers EXCEPT ![c.sale.customer_id].current_balance =
              c.customer.current_balance + c.sale.total_amount]
    /\ Finish(w, "ok")
    /\ UNCHANGED <<inventoryVars, sales, sale_items, sale_payments,
                   expenseVars>>

\* record_payment, lines 655-689: the reference rule, the sale with its
\* customer, and the amount against the amount due.
BeginPayment(w, company_id, sale_id, amount, payment_method, reference_number) ==
    LET c == [Idle EXCEPT !.op = "record_payment",
                          !.company_id = company_id,
                          !.req = [sale_id |-> sale_id, amount |-> amount,
                                   payment_method |-> payment_method,
                                   reference_number |-> reference_number]]
    IN  /\ calls[w].pc = "idle"
        /\ RoomForPayment
        /\ UNCHANGED <<inventoryVars, salesVars, expenseVars>>
        /\ IF ReferenceError(payment_method, reference_number)
           THEN /\ calls' = calls
                /\ last' = Outcome("record_payment", "ValidationError")
           ELSE IF \/ sale_id \notin DOMAIN sales
                   \/ sales[sale_id].company_id # company_id
           THEN /\ calls' = calls
                /\ last' = Outcome("record_payment", "NotFound")
           ELSE IF ExceedsDue(amount, sales[sale_id].amount_due)
           THEN /\ calls' = calls
                /\ last' = Outcome("record_payment", "ExceedsAmountDue")
           ELSE Goto(w, [c EXCEPT
                           !.pc = "pay_insert",
                           !.sale = sales[sale_id],
                           !.customer =
                               customers[sales[sale_id].customer_id]])

\* Lines 691-706: the sale_payments row.
PayInsert(w) ==
    LET c == calls[w] IN
    /\ c.pc = "pay_insert"
    /\ sale_payments' =
         Append(sale_payments,
                [sale_id |-> c.req.sale_id, amount |-> c.req.amount,
                 payment_method |-> c.req.payment_method,
                 reference_number |-> c.req.reference_number])
    /\ Goto(w, [c EXCEPT !.pc = "pay_sale"])
    /\ UNCHANGED <<inventoryVars, customers, sales, sale_items,
                   expenseVars>>

\* Lines 708-726: the amounts and the status computed from the sale read.
PaySale(w) ==
    LET c == calls[w]
        new_amount_paid == NewAmountPaid(c.sale.amount_paid, c.req.amount)
        new_amount_due == NewAmountDue(c.sale.amount_due, c.req.amount)
    IN  /\ c.pc = "pay_sale"
        /\ sales' = [sales EXCEPT
                       ![c.req.sale_id].amount_paid = new_amount_paid,
                       ![c.req.sale_id].amount_due = new_amount_due,
                       ![c.req.sale_id].payment_status =
                           NewPaymentStatus(new_amount_paid, new_amount_due)]
        /\ Goto(w, [c EXCEPT !.pc = "pay_balance"])
        /\ UNCHANGED <<inventoryVars, customers, sale_items, sale_payments,
                       expenseVars>>

\* Lines 728-733: the balance read with the sale, less the amount.
PayBalance(w) ==
    LET c == calls[w] IN
    /\ c.pc = "pay_balance"
    /\ customers' =
         [customers EXCEPT ![c.sale.customer_id].current_balance =
              new_customer_balance(c.customer.current_balance,
                                   c.req.amount)]
    /\ Finish(w, "ok")
    /\ UNCHANGED <<inventoryVars, sales, sale_items, sale_payments,
                   expenseVars>>

\* create_inventory_transaction, lines 108-185: the update_inventory_quantity
\* calls of a request, in the order they are made.
RecordMoves(type, quantity, from, to) ==
    CASE type = TransactionType.stock_in ->
           <<[location_id |-> to, quantity_change |-> quantity]>>
      [] type = TransactionType.stock_out ->
           <<[location_id |-> from, quantity_change |-> -quantity]>>
      [] type = TransactionType.transfer ->
           <<[location_id |-> from, quantity_change |-> -quantity],
             [location_id |-> to, quantity_change |-> quantity]>>
      [] type = TransactionType.adjustment ->
           IF to # None
           THEN <<[location_id |-> to, quantity_change |-> quantity]>>
           ELSE <<[location_id |-> from, quantity_change |-> -quantity]>>
      [] OTHER -> <<>>

\* Lines 110, 125, 140 and 164: the locations the type of the request needs.
RecordRefused(type, from, to) ==
    CASE type = TransactionType.stock_in -> to = None
      [] type = TransactionType.stock_out -> from = None
      [] type = TransactionType.transfer -> from = None \/ to = None
      [] type = TransactionType.adjustment -> to = None /\ from = None
      [] OTHER -> FALSE

\* create_inventory_transaction, lines 71-82 and 108-168: the variant, and
\* the locations of the request.
BeginRecord(w, company_id, variant_id, type, quantity, from, to, reference_type, reference_id) ==
    LET c == [Idle EXCEPT !.op = "create_inventory_transaction",
                          !.company_id = company_id,
                          !.req = [product_variant_id |-> variant_id,
                                   transaction_type |-> type,
                                   quantity |-> quantity,
                                   from_location_id |-> from,
                                   to_location_id |-> to,
                                   reference_type |-> reference_type,
                                   reference_id |-> reference_id,
                                   moves |-> RecordMoves(type, quantity,
                                                         from, to)]]
    IN  /\ calls[w].pc = "idle"
        /\ RoomForTxn
        /\ UNCHANGED <<inventoryVars, salesVars, expenseVars>>
        /\ IF \/ variant_id \notin Variants
              \/ product_variants[variant_id].company_id # company_id
           THEN /\ calls' = calls
                /\ last' = Outcome("create_inventory_transaction",
                                   "NotFound")
           ELSE IF RecordRefused(type, from, to)
           THEN /\ calls' = calls
                /\ last' = Outcome("create_inventory_transaction",
                                   "ValidationError")
           ELSE Goto(w, [c EXCEPT !.pc = "ledger_read"])

\* adjust_stock, lines 286-301: the request goes to
\* update_inventory_quantity as it is; the row of the log is an adjustment
\* at the location, on the side the sign of the change gives.
BeginAdjust(w, company_id, variant_id, location_id, quantity_change) ==
    /\ calls[w].pc = "idle"
    /\ RoomForTxn
    /\ UNCHANGED <<inventoryVars, salesVars, expenseVars>>
    /\ Goto(w, [Idle EXCEPT
                  !.pc = "ledger_read", !.op = "adjust_stock",
                  !.company_id = company_id,
                  !.req = [product_variant_id |-> variant_id,
                           transaction_type |-> TransactionType.adjustment,
                           quantity |-> abs(quantity_change),
                           from_location_id |->
                               IF quantity_change < 0 THEN location_id
                                                      ELSE None,
                           to_location_id |->
                               IF quantity_change > 0 THEN location_id
                                                      ELSE None,
                           reference_type |-> None,
                           reference_id |-> NoId,
                           moves |-> <<[location_id |-> location_id,
                                        quantity_change |->
                                            quantity_change]>>]])

\* update_inventory_quantity for the next movement of the request, lines
\* 25-39 and 46-51: the inventory item, and the refusals decided from it.
\* What an earlier movement of the request wrote stays.
LedgerRead(w) ==
    LET c == calls[w]
        move == Head(c.req.moves)
        i == FirstItem(inventory_items, c.req.product_variant_id,
                       move.location_id)
    IN  /\ c.pc = "ledger_read"
        /\ UNCHANGED <<inventoryVars, salesVars, expenseVars>>
        /\ IF i # 0 /\ inventory_items[i].quantity + move.quantity_change < 0
           THEN Finish(w, "InsufficientStock")
           ELSE IF i = 0 /\ move.quantity_change < 0
           THEN Finish(w, "InvalidTransition")
           ELSE Goto(w, [c EXCEPT !.pc = "ledger_write", !.item = i,
                                  !.current_qty =
                                      IF i = 0 THEN 0
                                      ELSE inventory_items[i].quantity])

\* Lines 42-45 and 53-59: the new quantity written by id, or the row
\* inserted when none was found; then the next movement, or the log.
LedgerWrite(w) ==
    LET c == calls[w]
        move == Head(c.req.moves)
    IN  /\ c.pc = "ledger_write"
        /\ inventory_items' =
             IF c.item # 0
             THEN WriteQuantity(inventory_items, c.item,
                                c.current_qty + move.quantity_change)
             ELSE Append(inventory_items,
                         [company_id |-> c.company_id,
                          product_variant_id |-> c.req.product_variant_id,
                          storage_location_id |-> move.location_id,
                          quantity |-> move.quantity_change])
        /\ Goto(w, [c EXCEPT !.pc = IF Tail(c.req.moves) = <<>>
                                     THEN "ledger_log"
                                     ELSE "ledger_read",
                             !.req.moves = Tail(c.req.moves)])
        /\ UNCHANGED <<inventory_transactions, salesVars, expenseVars>>

\* Lines 188-206 and 295-304: the inventory transaction.
LedgerLog(w) ==
    LET c == calls[w] IN
    /\ c.pc = "ledger_log"
    /\ inventory_transactions' =
         Append(inventory_transactions,
                Txn(c.company_id, c.req.product_variant_id,
                    c.req.transaction_type, c.req.quantity,
                    c.req.from_location_id, c.req.to_location_id,
                    c.req.reference_type, c.req.reference_id))
    /\ Finish(w, "ok")
    /\ UNCHANGED <<inventory_items, salesVars, expenseVars>>

\* reverse_transaction, lines 353-400: the update_inventory_quantity calls
\* of the reversal, in the order they are made.
ReverseMoves(original) ==
    LET reverse_type == ReverseType(original)
        quantity == original.quantity
    IN  CASE reverse_type = "in" ->
               <<[location_id |-> ReverseTo(original),
                  quantity_change |-> quantity]>>
          [] reverse_type = "out" ->
               <<[location_id |-> ReverseFrom(original),
                  quantity_change |-> -quantity]>>
          [] reverse_type = "transfer" ->
               <<[location_id |-> ReverseFrom(original),
                  quantity_change |-> quantity],
                 [location_id |-> ReverseTo(original),
                  quantity_change |-> -quantity]>>
          [] OTHER -> <<>>

\* reverse_transaction, lines 326-337: the original transaction.
BeginReverse(w, company_id, transaction_id) ==
    /\ calls[w].pc = "idle"
    /\ RoomForTxn
    /\ UNCHANGED <<inventoryVars, salesVars, expenseVars>>
    /\ IF \/ transaction_id \notin DOMAIN inventory_transactions
          \/ inventory_transactions[transaction_id].company_id # company_id
       THEN /\ calls' = calls
            /\ last' = Outcome("reverse_transaction", "NotFound")
       ELSE Goto(w, [Idle EXCEPT
                       !.pc = "reversal_check",
                       !.op = "reverse_transaction",
                       !.company_id = company_id,
                       !.req = [transaction_id |-> transaction_id,
                                original |->
                                  inventory_transactions[transaction_id],
                                moves |-> ReverseMoves(
                                  inventory_transactions[transaction_id])]])

\* Lines 340-351: reversal_check, the rows that reverse the transaction.
ReversalCheck(w) ==
    LET c == calls[w] IN
    /\ c.pc = "reversal_check"
    /\ UNCHANGED <<inventoryVars, salesVars, expenseVars>>
    /\ IF Reversals(inventory_transactions, c.req.transaction_id) # {}
       THEN Finish(w, "AlreadyReversed")
       ELSE Goto(w, [c EXCEPT !.pc = IF c.req.moves = <<>>
                                     THEN "reverse_log"
                                     ELSE "reverse_read"])

\* update_inventory_quantity for the next movement of the reversal, lines
\* 25-39 and 46-51: the inventory item, and the refusals decided from it.
ReverseRead(w) ==
    LET c == calls[w]
        move == Head(c.req.moves)
        i == FirstItem(inventory_items, c.req.original.product_variant_id,
                       move.location_id)
    IN  /\ c.pc = "reverse_read"
        /\ UNCHANGED <<inventoryVars, salesVars, expenseVars>>
        /\ IF i # 0 /\ inventory_items[i].quantity + move.quantity_change < 0
           THEN Finish(w, "InsufficientStock")
           ELSE IF i = 0 /\ move.quantity_change < 0
           THEN Finish(w, "InvalidTransition")
           ELSE Goto(w, [c EXCEPT !.pc = "reverse_write", !.item = i,
                                  !.current_qty =
                                      IF i = 0 THEN 0
                                      ELSE inventory_items[i].quantity])

\* Lines 42-45 and 53-59: the new quantity written by id, or the row
\* inserted when none was found; then the next movement, or the log.
ReverseWrite(w) ==
    LET c == calls[w]
        move == Head(c.req.moves)
        items == IF c.item # 0
                 THEN WriteQuantity(inventory_items, c.item,
                                    c.current_qty + move.quantity_change)
                 ELSE Append(inventory_items,
                             [company_id |-> c.company_id,
                              product_variant_id |->
                                c.req.original.product_variant_id,
                              storage_location_id |-> move.location_id,
                              quantity |-> move.quantity_change])
    IN  /\ c.pc = "reverse_write"
        /\ WithinStock(items)
        /\ inventory_items' = items
        /\ Goto(w, [c EXCEPT !.pc = IF Tail(c.req.moves) = <<>>
                                     THEN "reverse_log"
                                     ELSE "reverse_read",
                             !.req.moves = Tail(c.req.moves)])
        /\ UNCHANGED <<inventory_transactions, salesVars, expenseVars>>

\* Lines 403-414: the reversal row.
ReverseLog(w) ==
    LET c == calls[w]
        original == c.req.original
    IN  /\ c.pc = "reverse_log"
        /\ inventory_transactions' =
             Append(inventory_transactions,
                    Txn(c.company_id, original.product_variant_id,
                        ReverseType(original), original.quantity,
                        ReverseFrom(original), ReverseTo(original),
                        "reversal", c.req.transaction_id))
        /\ Finish(w, "ok")
        /\ UNCHANGED <<inventory_items, salesVars, expenseVars>>

-----------------------------------------------------------------------------
(* expenses.py, update_expense (UpdateExpense).                            *)

\* An ExpenseUpdate field that is not given: model_dump yields None for it
\* and line 364 drops it.  The schema asks amount > 0.
NoAmount == 0

\* expense_data.model_dump() of a request that gives no field
\* (schemas/expenses.py, ExpenseUpdate): every field with the value that
\* stands for None in its column.
NoExpenseData ==
    [title |-> None, description |-> None, amount |-> NoAmount,
     supplier_id |-> None, sale_id |-> NoId, expense_date |-> NoDate,
     notes |-> None, payment_status |-> None]

\* Line 364: the fields of the request that are not None.
GivenFields(expense_data) ==
    {f \in DOMAIN expense_data : expense_data[f] # NoExpenseData[f]}

\* Lines 364-379: update_data, the columns the request writes and their
\* values.  The expense_date is written as its ISO text, which the column
\* holds as the date it names; the payment_status is written as given; a
\* new amount brings the amount_due computed from it and the amount_paid
\* on file.
UpdateData(current, expense_data) ==
    LET given == GivenFields(expense_data)
        columns == given \cup (IF "amount" \in given THEN {"amount_due"}
                                                     ELSE {})
    IN  [f \in columns |->
           IF f = "amount" THEN to_float(expense_data.amount)
           ELSE IF f = "amount_due"
           THEN to_float(to_float(expense_data.amount) - current.amount_paid)
           ELSE expense_data[f]]

\* create_expense makes its database calls one after the other with no
\* transaction around them: the parent row and each child row are written
\* by a call of their own.

\* create_expense with is_recurring set, lines 87-182: the category, the
\* sale, the recurring fields, and the expense_record built.
BeginCreateExpense(w, company_id, expense_category_id, expense_type, amount, sale_id, expense_date, frequency, day_of_week, day_of_month, end_date) ==
    LET err == CreateExpenseError(company_id, expense_category_id,
                                  expense_type, sale_id)
        c == [Idle EXCEPT
                !.op = "create_expense", !.company_id = company_id,
                !.req = [expense_date |-> expense_date,
                         recurrence_frequency |-> frequency,
                         recurrence_day_of_week |-> day_of_week,
                         recurrence_day_of_month |-> day_of_month,
                         recurrence_end_date |-> end_date],
                !.expense = ExpenseRecord(company_id, expense_category_id,
                                          expense_type, amount, sale_id,
                                          expense_date, frequency,
                                          day_of_week, day_of_month,
                                          end_date)]
    IN  /\ calls[w].pc = "idle"
        /\ UNCHANGED <<inventoryVars, salesVars, expenseVars>>
        /\ IF err # "ok"
           THEN /\ calls' = calls
                /\ last' = Outcome("create_expense", err)
           ELSE IF RecurringError(frequency, day_of_week, day_of_month)
           THEN /\ calls' = calls
                /\ last' = Outcome("create_expense", "ValidationError")
           ELSE Goto(w, [c EXCEPT !.pc = "expense_insert"])

\* Lines 185-203: the parent row is inserted, and the recurring dates are
\* generated from the request; with no date the request is answered.
ExpenseInsert(w) ==
    LET c == calls[w]
        recurring_dates ==
            generate_recurring_dates(c.req.expense_date,
                                     c.req.recurrence_frequency,
                                     c.req.recurrence_day_of_week,
                                     c.req.recurrence_day_of_month,
                                     c.req.recurrence_end_date)
    IN  /\ c.pc = "expense_insert"
        /\ expenses' = Append(expenses, c.expense)
        /\ IF recurring_dates = <<>>
           THEN Finish(w, "ok")
           ELSE Goto(w, [c EXCEPT !.pc = "child_insert",
                                  !.new_id = Len(expenses) + 1,
                                  !.recurring_dates = recurring_dates,
                                  !.k = 1])
        /\ UNCHANGED <<inventoryVars, salesVars, expense_payments>>

\* Lines 206-217: the child row of the recurring date at place k; after the
\* last the request is answered with the parent.
ChildInsert(w) ==
    LET c == calls[w] IN
    /\ c.pc = "child_insert"
    /\ expenses' = Append(expenses,
                          ChildRecord(c.expense, c.new_id,
                                      c.recurring_dates[c.k]))
    /\ IF c.k < Len(c.recurring_dates)
       THEN Goto(w, [c EXCEPT !.k = c.k + 1])
       ELSE Finish(w, "ok")
    /\ UNCHANGED <<inventoryVars, salesVars, expense_payments>>

\* update_expense and record_expense_payment make their database calls one
\* after the other with no transaction around them: each call is a step,
\* and what a handler read earlier is what it computes from later.

\* update_expense, lines 352-362: the expense is read.
BeginUpdateExpense(w, company_id, expense_id, expense_data) ==
    LET c == [Idle EXCEPT !.op = "update_expense",
                          !.company_id = company_id,
                          !.req = [expense_id |-> expense_id,
                                   expense_data |-> expense_data]]
    IN  /\ calls[w].pc = "idle"
        /\ UNCHANGED <<inventoryVars, salesVars, expenseVars>>
        /\ IF \/ expense_id \notin DOMAIN expenses
              \/ expenses[expense_id].company_id # company_id
           THEN /\ calls' = calls
                /\ last' = Outcome("update_expense", "NotFound")
           ELSE Goto(w, [c EXCEPT !.pc = "expense_write",
                                  !.expense = expenses[expense_id]])

\* Lines 364-383: the columns of update_data are written, the amount_due
\* computed from the amount_paid read before; the other columns are left
\* as they are found.
ExpenseWrite(w) ==
    LET c == calls[w]
        update_data == UpdateData(c.expense, c.req.expense_data)
    IN  /\ c.pc = "expense_write"
        /\ expenses' =
             [expenses EXCEPT ![c.req.expense_id] =
                [f \in DOMAIN @ |-> IF f \in DOMAIN update_data
                                    THEN update_data[f] ELSE @[f]]]
        /\ Finish(w, "ok")
        /\ UNCHANGED <<inventoryVars, salesVars, expense_payments>>

RoomForExpensePayment ==
    Len(expense_payments) + Pending({"expense_pay_insert"}) < MaxPayments

\* record_expense_payment, lines 406-431: the expense is read and the
\* request is checked against it.
BeginExpensePayment(w, company_id, expense_id, amount, payment_method, reference_number) ==
    LET c == [Idle EXCEPT !.op = "record_expense_payment",
                          !.company_id = company_id,
                          !.req = [expense_id |-> expense_id,
                                   amount |-> amount,
                                   payment_method |-> payment_method,
                                   reference_number |-> reference_number]]
    IN  /\ calls[w].pc = "idle"
        /\ RoomForExpensePayment
        /\ UNCHANGED <<inventoryVars, salesVars, expenseVars>>
        /\ IF \/ expense_id \notin DOMAIN expenses
              \/ expenses[expense_id].company_id # company_id
           THEN /\ calls' = calls
                /\ last' = Outcome("record_expense_payment", "NotFound")
           ELSE IF ExceedsDue(amount, expenses[expense_id].amount_due)
           THEN /\ calls' = calls
                /\ last' = Outcome("record_expense_payment",
                                   "ExceedsAmountDue")
           ELSE IF ExpenseReferenceError(payment_method, reference_number)
           THEN /\ calls' = calls
                /\ last' = Outcome("record_expense_payment",
                                   "ValidationError")
           ELSE Goto(w, [c EXCEPT !.pc = "expense_pay_insert",
                                  !.expense = expenses[expense_id]])

\* Lines 434-443: the expense_payments row.
ExpensePayInsert(w) ==
    LET c == calls[w] IN
    /\ c.pc = "expense_pay_insert"
    /\ expense_payments' =
         Append(expense_payments,
                [company_id |-> c.company_id,
                 expense_id |-> c.req.expense_id,
                 amount |-> to_float(c.req.amount),
                 payment_method |-> c.req.payment_method,
                 reference_number |-> c.req.reference_number])
    /\ Goto(w, [c EXCEPT !.pc = "expense_pay_update"])
    /\ UNCHANGED <<inventoryVars, salesVars, expenses>>

\* Lines 451-469: the amounts and the status computed from the expense
\* read at the start.
ExpensePayUpdate(w) ==
    LET c == calls[w]
        new_amount_paid == NewAmountPaid(c.expense.amount_paid, c.req.amount)
        new_amount_due == NewAmountDue(c.expense.amount_due, c.req.amount)
    IN  /\ c.pc = "expense_pay_update"
        /\ expenses' = [expenses EXCEPT
             ![c.req.expense_id].amount_paid = to_float(new_amount_paid),
             ![c.req.expense_id].amount_due = to_float(new_amount_due),
             ![c.req.expense_id].payment_status =
                 NewPaymentStatus(new_amount_paid, new_amount_due)]
        /\ Finish(w, "ok")
        /\ UNCHANGED <<inventoryVars, salesVars, expense_payments>>

-----------------------------------------------------------------------------

Init ==
    /\ inventory_items = <<>>
    /\ inventory_transactions = <<>>
    /\ customers = InitCustomers
    /\ sales = <<>>
    /\ sale_items = <<>>
    /\ sale_payments = <<>>
    /\ expenses = <<>>
    /\ expense_payments = <<>>
    /\ last = Outcome("init", "ok")
    /\ calls = [w \in Workers |-> Idle]

\* The requests of the stock-ledger exploration: every transaction type, with
\* the locations its type reads (or lacks).  Stock enters at l1 and reaches
\* l2 by transfer or by adjust_stock.
LedgerRequests ==
    {<<type, from, to>> \in TransactionTypes \X {None, "l1", "l2"}
                                            \X {None, "l1", "l2"} :
        \/ type = "in" /\ from = None /\ to # "l2"
        \/ type = "out" /\ to = None
        \/ type = "transfer" /\ from # to
        \/ type = "adjustment" /\ (from = None \/ to = None)
                               /\ "l2" \notin {from, to}}

\* What a request says it refers to: nothing, or, for a delivery of one
\* unit, the first transaction as the one it reverses.
LedgerReferences == {<<None, NoId>>, <<"reversal", 1>>}

Record ==
    \E company_id \in Companies, variant_id \in VariantIds,
       req \in LedgerRequests, quantity \in Quantities,
       ref \in LedgerReferences :
        /\ ref[1] # None =>
              /\ variant_id = "v1"
              /\ req = <<"in", None, "l1">>
              /\ quantity = 1
        /\ create_inventory_transaction(company_id, variant_id, req[1],
                                        quantity, req[2], req[3],
                                        ref[1], ref[2])

AdjustStock ==
    \E company_id \in Companies, variant_id \in Variants,
       location_id \in Locations, quantity_change \in {-1, 1, 2} :
        adjust_stock(company_id, variant_id, location_id, quantity_change)

Reverse ==
    \E company_id \in Companies, transaction_id \in 1..(MaxTxns + 1) :
        reverse_transaction(company_id, transaction_id)

\* The requests of the sales exploration.
SaleQuantities == {0, 1, 2}
SaleLine == [product_variant_id : Variants, quantity : SaleQuantities,
             unit_price : UnitPrices]
SaleLineLists == [1..1 -> SaleLine] \cup [1..2 -> SaleLine]

\* create_credit_note requests: one return line naming a line of the first
\* sale or the line after them, or several naming lines of the first sale.
SaleItemIds == {1, 2, 3}
ReturnLine == [sale_item_id : SaleItemIds, return_quantity : Quantities]
ReturnLists ==
    [1..1 -> ReturnLine]
    \cup [1..2 -> {r \in ReturnLine : /\ r.sale_item_id \in {1, 2}
                                     /\ r.return_quantity = 1}]

\* Stock arrives by stock_in at one location.
RestockRequests == {<<"in", None, "l1">>}

\* create_sale requests: every customer and line list at the stocked
\* location, and one request each for a customer that does not exist, a
\* location that does not exist and a location that holds nothing.
OneLine == <<[product_variant_id |-> "v1", quantity |-> 1,
              unit_price |-> 1]>>
\* A request is <<customer_id, storage_location_id, items, sale_type,
\* original_sale_id>>.
SaleRequests ==
    {<<c, "l1", lines, "invoice", NoId>> :
        c \in {"c1", "c2"}, lines \in SaleLineLists}
    \cup {<<"c0", "l1", OneLine, "invoice", NoId>>,
          <<"c1", "l0", OneLine, "invoice", NoId>>,
          <<"c1", "l2", OneLine, "invoice", NoId>>}

Restock ==
    \E company_id \in Companies, variant_id \in Variants,
       req \in RestockRequests, quantity \in Quantities :
        create_inventory_transaction(company_id, variant_id, req[1],
                                     quantity, req[2], req[3], None, NoId)

CreateSale ==
    \E company_id \in Companies, req \in SaleRequests :
        create_sale(company_id, req[1], req[2], req[4], req[3], req[5])

CreateCreditNote ==
    \E company_id \in Companies, original_sale_id \in 1..MaxSales,
       returns \in ReturnLists :
        create_credit_note(company_id, original_sale_id, returns)

RecordPayment ==
    \E company_id \in Companies, sale_id \in 1..(MaxSales + 1),
       amount \in PayAmounts, payment_method \in Methods,
       reference_number \in References :
        record_payment(company_id, sale_id, amount, payment_method,
                       reference_number)

\* update_customer requests of the sales exploration: the tier set or
\* cleared.
UpdateCustomer ==
    \E company_id \in Companies, customer_id \in {"c1", "c0"},
       customer_tier_id \in Tiers \cup {None} :
        update_customer(company_id, customer_id,
                        [customer_tier_id |-> customer_tier_id])

Next ==
    \/ Restock
    \/ CreateSale
    \/ CreateCreditNote
    \/ UpdateCustomer

Spec == Init /\ [][Next]_vars

\* The credit exploration: sales to customers whose type, tier and credit
\* limit are changed between them, and to a customer created on the way.
\* The last request takes a unit back through create_sale: a line of
\* quantity -1 in a credit_note naming the first sale.
TwoUnits == <<[product_variant_id |-> "v1", quantity |-> 2,
               unit_price |-> 1]>>
TwoLines == OneLine \o OneLine
TakeBack == <<[product_variant_id |-> "v1", quantity |-> -1,
               unit_price |-> 1]>>
CreditSaleRequests ==
    {<<"c1", "l1", lines, "invoice", NoId>> : lines \in {OneLine, TwoLines}}
    \cup {<<"c2", "l1", OneLine, "invoice", NoId>>,
          <<NewCustomerId, "l1", TwoUnits, "invoice", NoId>>,
          <<"c1", "l1", TakeBack, "credit_note", 1>>}

\* update_customer requests: the credit limit lowered to one unit together
\* with the tier cleared, the type changed, and a request that sets nothing.
CustomerUpdates ==
    {[credit_limit |-> Hundredths(1), customer_tier_id |-> None],
     [customer_type |-> "individual"],
     [customer_type |-> "walk-in"],
     NoFields}

CreditRestock ==
    \E company_id \in Companies :
        create_inventory_transaction(company_id, "v1", "in", 2, None, "l1",
                                     None, NoId)

CreditCreateSale ==
    \E company_id \in Companies, req \in CreditSaleRequests :
        create_sale(company_id, req[1], req[2], req[4], req[3], req[5])

CreditUpdateCustomer ==
    \E company_id \in Companies, customer_id \in {"c1", "c2", "c0"},
       update_data \in CustomerUpdates :
        update_customer(company_id, customer_id, update_data)

\* create_customer requests: a business customer with a credit limit of
\* two units, with the tier named, left out, or naming no tier.
CreateCustomer ==
    \E company_id \in Companies, customer_tier_id \in {None, "t0"},
       payment_term_id \in {"p1", "p0"} :
        create_customer(company_id, "business", payment_term_id,
                        customer_tier_id, Hundredths(2))

NextCredit ==
    \/ CreditRestock
    \/ CreditCreateSale
    \/ CreditUpdateCustomer
    \/ CreateCustomer

SpecCredit == Init /\ [][NextCredit]_vars

\* The requests of the payment exploration: sales and credit notes of one
\* line, payments on them, and expenses with their payments.
PaySaleRequests ==
    {<<"c2", "l1", <<line>>>> : line \in SaleLine}
    \cup {<<"c1", "l1", OneLine>>}

PayCreateSale ==
    \E company_id \in Companies, req \in PaySaleRequests :
        create_sale(company_id, req[1], req[2], "invoice", req[3], NoId)

PayCreateCreditNote ==
    \E company_id \in Companies, original_sale_id \in 1..MaxSales,
       returns \in [1..1 -> ReturnLine] :
        create_credit_note(company_id, original_sale_id, returns)

ExpenseRequests ==
    {<<"cat1", "standard", NoId>>, <<"cat2", "sales", 1>>,
     <<"cat2", "sales", NoId>>, <<"cat0", "standard", NoId>>}

CreateExpense ==
    \E company_id \in Companies, req \in ExpenseRequests,
       amount \in {100} :
        create_expense(company_id, req[1], req[2], amount, req[3])

RecordExpensePayment ==
    \E company_id \in Companies, expense_id \in 1..(MaxExpenses + 1),
       amount \in PayAmounts, payment_method \in Methods,
       reference_number \in References :
        record_expense_payment(company_id, expense_id, amount,
                               payment_method, reference_number)

NextPay ==
    \/ Restock
    \/ PayCreateSale
    \/ PayCreateCreditNote
    \/ RecordPayment

SpecPay == Init /\ [][NextPay]_vars

\* The requests of the amount-due exploration: one delivery, one sale from
\* it to the walk-in customer, and expenses, with payments on both.
DueRestock ==
    \E company_id \in Companies :
        /\ inventory_transactions = <<>>
        /\ create_inventory_transaction(company_id, "v1", "in", 2, None, "l1",
                                        None, NoId)

DueCreateSale ==
    \E company_id \in Companies :
        /\ sales = <<>>
        /\ create_sale(company_id, "c2", "l1", "invoice", OneLine, NoId)

NextDue ==
    \/ DueRestock
    \/ DueCreateSale
    \/ RecordPayment
    \/ CreateExpense
    \/ RecordExpensePayment

SpecDue == Init /\ [][NextDue]_vars

NextLedger == Record \/ AdjustStock \/ Reverse

SpecLedger == Init /\ [][NextLedger]_vars

\* The requests of the credit-note exploration: sales of one or two lines
\* to either customer, and credit notes of one return line or of two, on
\* every sale.
NoteSaleRequests ==
    {<<[product_variant_id |-> "v1", quantity |-> q, unit_price |-> 1]>> :
        q \in Quantities}
    \cup {OneLine \o OneLine}

NoteReturnLists ==
    [1..1 -> ReturnLine]
    \cup {<<[sale_item_id |-> 1, return_quantity |-> 1],
            [sale_item_id |-> 2, return_quantity |-> 1]>>,
          <<[sale_item_id |-> 1, return_quantity |-> 2],
            [sale_item_id |-> 3, return_quantity |-> 1]>>,
          <<[sale_item_id |-> 3, return_quantity |-> 1],
            [sale_item_id |-> 1, return_quantity |-> 2]>>}

NoteCreateSale ==
    \E company_id \in Companies, customer_id \in {"c1", "c2"},
       lines \in NoteSaleRequests :
        create_sale(company_id, customer_id, "l1", "invoice", lines, NoId)

NoteCreateCreditNote ==
    \E company_id \in Companies, original_sale_id \in 1..(MaxSales + 1),
       returns \in NoteReturnLists :
        create_credit_note(company_id, original_sale_id, returns)

NextNote ==
    \/ Restock
    \/ NoteCreateSale
    \/ NoteCreateCreditNote

SpecNote == Init /\ [][NextNote]_vars

\* The stock-update exploration: update_inventory_quantity alone, called with
\* every change of at most two units on three (variant, location) pairs (the
\* function does not look the variant up).
Deltas == {-2, -1, 0, 1, 2}
DeltaTargets == {<<"v1", "l1">>, <<"v1", "l2">>, <<"v0", "l1">>}

ApplyDelta(company_id, variant_id, location_id, quantity_change) ==
    LET r == update_inventory_quantity(inventory_items, company_id,
                                       variant_id, location_id,
                                       quantity_change) IN
    /\ WithinStock(r.items)
    /\ inventory_items' = r.items
    /\ Respond("update_inventory_quantity", r.err)
    /\ UNCHANGED <<inventory_transactions, salesVars, expenseVars>>

ApplyDeltas ==
    \E company_id \in Companies, target \in DeltaTargets,
       quantity_change \in Deltas :
        ApplyDelta(company_id, target[1], target[2], quantity_change)

\* update_inventory_item requests: the quantity set, a stock level set,
\* both, and a request that sets nothing.
ItemUpdates ==
    {[quantity |-> q] : q \in {0, 3}}
    \cup {[min_stock_level |-> 1], [quantity |-> 1, min_stock_level |-> 1],
          NoFields}

UpdateItem ==
    \E company_id \in Companies, item_id \in 1..3,
       update_data \in ItemUpdates :
        update_inventory_item(company_id, item_id, update_data)

DeleteItem ==
    \E company_id \in Companies, item_id \in 1..3 :
        delete_inventory_item(company_id, item_id)

NextDelta ==
    \/ ApplyDeltas
    \/ UpdateItem
    \/ DeleteItem

SpecDelta == Init /\ [][NextDelta]_vars

\* The adjustment exploration: Record of adjustment transactions with every
\* combination of from_location_id and to_location_id, given or not.
AdjustmentRequests == {None, "l1", "l2"} \X {None, "l1", "l2"}

RecordAdjustment ==
    \E company_id \in Companies, variant_id \in Variants,
       req \in AdjustmentRequests, quantity \in Quantities :
        create_inventory_transaction(company_id, variant_id,
                                     TransactionType.adjustment, quantity,
                                     req[1], req[2], None, NoId)

NextAdjust == RecordAdjustment

SpecAdjust == Init /\ [][NextAdjust]_vars

\* The tenancy exploration: the same requests sent on behalf of two
\* companies.  Every variant, location, customer and tier belongs to co1;
\* co2 is a second tenant that owns none of them.
Tenants == Companies \cup {"co2"}

TenantRecord ==
    \E company_id \in Tenants, variant_id \in Variants,
       req \in RestockRequests, quantity \in Quantities :
        create_inventory_transaction(company_id, variant_id, req[1],
                                     quantity, req[2], req[3], None, NoId)

TenantAdjustStock ==
    \E company_id \in Tenants, variant_id \in Variants,
       quantity_change \in {-1, 1} :
        adjust_stock(company_id, variant_id, "l1", quantity_change)

TenantReverse ==
    \E company_id \in Tenants, transaction_id \in 1..MaxTxns :
        reverse_transaction(company_id, transaction_id)

TenantCreateSale ==
    \E company_id \in Tenants :
        create_sale(company_id, "c2", "l1", "invoice", OneLine, NoId)

TenantCreateCreditNote ==
    \E company_id \in Tenants, original_sale_id \in 1..MaxSales :
        create_credit_note(company_id, original_sale_id,
                           <<[sale_item_id |-> original_sale_id,
                              return_quantity |-> 1]>>)

TenantRecordPayment ==
    \E company_id \in Tenants, sale_id \in 1..MaxSales :
        record_payment(company_id, sale_id, 50, "cash", None)

NextTenant ==
    \/ TenantRecord
    \/ TenantAdjustStock
    \/ TenantReverse
    \/ TenantCreateSale
    \/ TenantCreateCreditNote
    \/ TenantRecordPayment

SpecTenant == Init /\ [][NextTenant]_vars

\* The recurring-expense exploration.  A first recurring expense from a
\* start date on each day of a week: weekly for each weekday or none,
\* monthly for the first, the fifteenth or the last day or none, or with no
\* frequency; with no end date or one before the start, within the first
\* weeks, about the twelfth week or after the year.  While its rows are
\* being written another worker creates, once, a weekly expense of one
\* child.
StartDates == 738000..738006
DaysOfWeek == 0..6 \cup {NoDay}
DaysOfMonth == {1, 15, 31, NoDay}
EndDates   == {NoDate, 737999, 738003, 738010, 738085, 738400}
Recurrences ==
    {<<"weekly", d, NoDay>> : d \in DaysOfWeek}
      \cup {<<"monthly", NoDay, d>> : d \in DaysOfMonth}
      \cup {<<None, NoDay, NoDay>>}

\* The recurring expenses created and those about to be.
Recurring ==
    Cardinality({i \in DOMAIN expenses :
                   expenses[i].parent_expense_id = NoId})
      + Pending({"expense_insert"})

RaceRecurringExpense ==
    \E w \in Workers, company_id \in Companies,
       expense_category_id \in {"cat1", "cat0"},
       expense_date \in StartDates, recurrence \in Recurrences,
       end_date \in EndDates :
        /\ expenses = <<>>
        /\ \A v \in Workers : calls[v].pc = "idle"
        /\ BeginCreateExpense(w, company_id, expense_category_id,
                              "standard", 100, NoId, expense_date,
                              recurrence[1], recurrence[2], recurrence[3],
                              end_date)

RaceSecondExpense ==
    \E w \in Workers, company_id \in Companies :
        /\ \E v \in Workers : calls[v].pc # "idle"
        /\ Recurring = 1
        /\ BeginCreateExpense(w, company_id, "cat1", "standard", 100, NoId,
                              738000, "weekly", 3, NoDay, 738010)

NextDates ==
    \/ RaceRecurringExpense
    \/ RaceSecondExpense
    \/ \E w \in Workers : ExpenseInsert(w)
    \/ \E w \in Workers : ChildInsert(w)

SpecDates == Init /\ [][NextDates]_vars

\* The race explorations: two workers, each serving one request at a time.
\* One delivery to l1 arrives before the sales.
RaceRestock ==
    \E company_id \in Companies, quantity \in Quantities :
        /\ inventory_transactions = <<>>
        /\ \A w \in Workers : calls[w].pc = "idle"
        /\ create_inventory_transaction(company_id, "v1", "in", quantity,
                                        None, "l1", None, NoId)

\* Sales of one unit, of two units in one line and of two units in two
\* lines.
RaceSale ==
    \E w \in Workers, company_id \in Companies,
       customer_id \in {"c1", "c2", "c0"},
       lines \in {OneLine, TwoUnits, TwoLines} :
        BeginSale(w, company_id, customer_id, "l1", lines, "invoice", NoId)

\* Sales of one line.
RaceSaleOfOneLine ==
    \E w \in Workers, company_id \in Companies,
       customer_id \in {"c1", "c2", "c0"}, lines \in {OneLine, TwoUnits} :
        BeginSale(w, company_id, customer_id, "l1", lines, "invoice", NoId)

RaceCreditNote ==
    \E w \in Workers, company_id \in Companies,
       original_sale_id \in 1..MaxSales, return_quantity \in Quantities :
        BeginCreditNote(w, company_id, original_sale_id,
                        <<[sale_item_id |-> original_sale_id,
                           return_quantity |-> return_quantity]>>)

RacePayment ==
    \E w \in Workers, company_id \in Companies, sale_id \in 1..MaxSales,
       amount \in PayAmounts :
        BeginPayment(w, company_id, sale_id, amount, "cash", None)

\* Record requests of every type on the one variant: deliveries of one or
\* two units to l1 and of one unit to l2, a stock_out and an adjustment
\* down of one unit at l1, a transfer and an adjustment up of one unit to
\* l2, a stock_out that names no location, and a delivery of a variant that
\* does not exist.
RaceRecordRequests ==
    {<<"v1", "in", 1, None, "l1">>, <<"v1", "in", 2, None, "l1">>,
     <<"v1", "in", 1, None, "l2">>, <<"v1", "out", 1, "l1", None>>,
     <<"v1", "transfer", 1, "l1", "l2">>,
     <<"v1", "adjustment", 1, None, "l2">>,
     <<"v1", "adjustment", 1, "l1", None>>,
     <<"v1", "out", 1, None, None>>, <<"v0", "in", 1, None, "l1">>}

RaceRecord ==
    \E w \in Workers, company_id \in Companies, req \in RaceRecordRequests :
        BeginRecord(w, company_id, req[1], req[2], req[3], req[4], req[5],
                    None, NoId)

RaceAdjust ==
    \E w \in Workers, company_id \in Companies,
       quantity_change \in {-1, 1} :
        BeginAdjust(w, company_id, "v1", "l1", quantity_change)

\* The delete of an inventory item is one call: it runs between any two
\* calls of the requests in flight.
RaceDeleteItem ==
    \E company_id \in Companies, item_id \in 1..2 :
        delete_inventory_item(company_id, item_id)

\* The steps of create_sale and of create_credit_note past their checks.
SaleSteps ==
    \E w \in Workers :
        \/ SaleInsert(w)
        \/ ItemInsert(w)
        \/ StockRead(w)
        \/ StockWrite(w)
        \/ StockLog(w)
        \/ BalanceWrite(w)

\* Interleaved sales from one delivery.
NextOversell ==
    \/ RaceRestock
    \/ RaceSale
    \/ \E w \in Workers : SaleCheck(w)
    \/ SaleSteps

SpecOversell == Init /\ [][NextOversell]_vars

\* Interleaved sales, credit notes and payments, and the stock row deleted
\* under them.
NextBalance ==
    \/ RaceRestock
    \/ RaceSaleOfOneLine
    \/ \E w \in Workers : SaleCheck(w)
    \/ SaleSteps
    \/ RaceCreditNote
    \/ \E w \in Workers : NoteItems(w)
    \/ RacePayment
    \/ \E w \in Workers : PayInsert(w)
    \/ \E w \in Workers : PaySale(w)
    \/ \E w \in Workers : PayBalance(w)
    \/ RaceDeleteItem

SpecBalance == Init /\ [][NextBalance]_vars

\* Interleaved stock-adding operations: Record and AdjustStock one call at
\* a time, and credit notes one call at a time on a sale of two units that
\* ran whole, returning a unit in one line or a unit in each of two; a
\* delivery of one unit that runs whole, and the stock rows deleted under
\* them.
RowsSale ==
    \E company_id \in Companies :
        /\ sales = <<>>
        /\ create_sale(company_id, "c2", "l1", "invoice", TwoUnits, NoId)

RowsCreditNote ==
    \E w \in Workers, company_id \in Companies,
       returns \in {<<[sale_item_id |-> 1, return_quantity |-> 1]>>,
                    <<[sale_item_id |-> 1, return_quantity |-> 1],
                      [sale_item_id |-> 1, return_quantity |-> 1]>>} :
        BeginCreditNote(w, company_id, 1, returns)

RowsDelivery ==
    \E company_id \in Companies :
        create_inventory_transaction(company_id, "v1", "in", 1, None, "l1",
                                     None, NoId)

NextRows ==
    \/ RaceRecord
    \/ RaceAdjust
    \/ \E w \in Workers : LedgerRead(w)
    \/ \E w \in Workers : LedgerWrite(w)
    \/ \E w \in Workers : LedgerLog(w)
    \/ RowsSale
    \/ RowsCreditNote
    \/ \E w \in Workers : NoteItems(w)
    \/ SaleSteps
    \/ RowsDelivery
    \/ RaceDeleteItem

SpecRows == Init /\ [][NextRows]_vars


\* The requests of the audit exploration: every operation that writes the
\* stock log or a payment table, on one variant, with a sale and a return of
\* one unit to the walk-in customer and an expense of that sale.
AuditRecordRequests ==
    {<<"in", None, "l1", 2>>, <<"out", "l1", None, 1>>,
     <<"transfer", "l1", "l2", 1>>}

AuditRecord ==
    \E company_id \in Companies, req \in AuditRecordRequests :
        create_inventory_transaction(company_id, "v1", req[1], req[4],
                                     req[2], req[3], None, NoId)

AuditAdjustStock ==
    \E company_id \in Companies, quantity_change \in {-1, 1} :
        adjust_stock(company_id, "v1", "l1", quantity_change)

AuditCreateSale ==
    \E company_id \in Companies :
        create_sale(company_id, "c2", "l1", "invoice", OneLine, NoId)

AuditCreateCreditNote ==
    \E company_id \in Companies :
        create_credit_note(company_id, 1,
                           <<[sale_item_id |-> 1, return_quantity |-> 1]>>)

AuditRecordPayment ==
    \E company_id \in Companies, amount \in PayAmounts :
        record_payment(company_id, 1, amount, "cash", None)

AuditCreateExpense ==
    \E company_id \in Companies :
        create_expense(company_id, "cat2", "sales", 100, 1)

AuditRecordExpensePayment ==
    \E company_id \in Companies, amount \in PayAmounts :
        record_expense_payment(company_id, 1, amount, "cash", None)

NextAudit ==
    \/ AuditRecord
    \/ AuditAdjustStock
    \/ Reverse
    \/ AuditCreateSale
    \/ AuditCreateCreditNote
    \/ AuditRecordPayment
    \/ AuditCreateExpense
    \/ AuditRecordExpensePayment

SpecAudit == Init /\ [][NextAudit]_vars


\* The requests of the returns exploration: invoices of one line, and credit
\* notes that return units of the first line, once or in two entries.
RepeatReturnLists ==
    [1..1 -> {r \in ReturnLine : r.sale_item_id = 1}]
    \cup {<<[sale_item_id |-> 1, return_quantity |-> 1],
            [sale_item_id |-> 1, return_quantity |-> 1]>>}

\* A line of quantity -1 is sent as a credit_note naming the first sale.
RepeatCreateSale ==
    \E company_id \in Companies, customer_id \in {"c1", "c2"},
       quantity \in Quantities \cup {-1} :
        create_sale(company_id, customer_id, "l1",
                    IF quantity < 0 THEN "credit_note" ELSE "invoice",
                    <<[product_variant_id |-> "v1", quantity |-> quantity,
                       unit_price |-> 1]>>,
                    IF quantity < 0 THEN 1 ELSE NoId)

RepeatCreateCreditNote ==
    \E company_id \in Companies, original_sale_id \in 1..MaxSales,
       returns \in RepeatReturnLists :
        create_credit_note(company_id, original_sale_id, returns)

NextReturn ==
    \/ Restock
    \/ RepeatCreateSale
    \/ RepeatCreateCreditNote

SpecReturn == Init /\ [][NextReturn]_vars


\* Interleaved reversals of the transactions of a quiet ledger: stock_in,
\* stock_out, transfer and adjustment each run to completion, Reverse runs
\* one database call at a time, and the stock rows are deleted under it.
RaceLedgerRequests ==
    {<<"in", None, "l1">>, <<"out", "l1", None>>,
     <<"transfer", "l1", "l2">>, <<"adjustment", None, "l1">>}

RaceLedger ==
    \E company_id \in Companies, req \in RaceLedgerRequests,
       quantity \in Quantities :
        /\ \A w \in Workers : calls[w].pc = "idle"
        /\ create_inventory_transaction(company_id, "v1", req[1], quantity,
                                        req[2], req[3], None, NoId)

RaceReverse ==
    \E w \in Workers, company_id \in Companies,
       transaction_id \in 1..(MaxTxns + 1) :
        BeginReverse(w, company_id, transaction_id)

NextReverse ==
    \/ RaceLedger
    \/ RaceReverse
    \/ \E w \in Workers : ReversalCheck(w)
    \/ \E w \in Workers : ReverseRead(w)
    \/ \E w \in Workers : ReverseWrite(w)
    \/ \E w \in Workers : ReverseLog(w)
    \/ RaceDeleteItem

SpecReverse == Init /\ [][NextReverse]_vars


\* The expense exploration: one expense of 100, and requests to update it
\* and to pay it whose database calls interleave.  The updates give the
\* amount, the payment_status, both, or the title, the date, the sale and
\* the notes.
ExpenseUpdates ==
    {[NoExpenseData EXCEPT !.amount = 50],
     [NoExpenseData EXCEPT !.payment_status = "paid"],
     [NoExpenseData EXCEPT !.amount = 50, !.payment_status = "paid"],
     [NoExpenseData EXCEPT !.title = "renamed", !.expense_date = today + 1,
                           !.sale_id = 1, !.notes = "note"]}

RaceUpdateExpense ==
    \E w \in Workers, company_id \in Companies,
       expense_id \in 1..(MaxExpenses + 1),
       expense_data \in ExpenseUpdates :
        BeginUpdateExpense(w, company_id, expense_id, expense_data)

RaceExpensePayment ==
    \E w \in Workers, company_id \in Companies,
       expense_id \in 1..(MaxExpenses + 1), amount \in {60, 100},
       payment_method \in Methods, reference_number \in References :
        BeginExpensePayment(w, company_id, expense_id, amount,
                            payment_method, reference_number)

ExpenseCreate ==
    \E company_id \in Companies :
        create_expense(company_id, "cat1", "standard", 100, NoId)

ExpenseStep ==
    \E w \in Workers :
        \/ ExpenseWrite(w)
        \/ ExpensePayInsert(w)
        \/ ExpensePayUpdate(w)

NextExpense ==
    \/ ExpenseCreate
    \/ RaceUpdateExpense
    \/ RaceExpensePayment
    \/ ExpenseStep

SpecExpense == Init /\ [][NextExpense]_vars

-----------------------------------------------------------------------------
(* Properties of the sales exploration (Spec).                             *)

\* Balance and credit limit of a customer row.
Balance(cs, customer_id) == cs[customer_id].current_balance
Limit(cs, customer_id) == cs[customer_id].credit_limit

\* The total of a list of lines at a discount, computed from the lines.
ExpectedTotal(lines, discount) ==
    LET sub == SumSeq([k \in DOMAIN lines |->
                         lines[k].quantity *
                                    Hundredths(lines[k].unit_price)])
    IN  sub - (sub * discount) \div 100

\* C1: every inventory item has a quantity >= 0 in every reachable state.
NonNegativeStock ==
    \A i \in DOMAIN inventory_items : inventory_items[i].quantity >= 0

\* The customer and location of a create_sale request exist in the company.
SaleRefsFound(company_id, customer_id, location_id) ==
    /\ customer_id \in DOMAIN customers
    /\ customers[customer_id].company_id = company_id
    /\ location_id \in Locations
    /\ storage_locations[location_id].company_id = company_id

\* Every line of positive quantity is covered by the stock on hand.
LinesInStock(location_id, lines) ==
    \A k \in DOMAIN lines :
        lines[k].quantity > 0 =>
          /\ MatchingItems(inventory_items, lines[k].product_variant_id,
                           location_id) # {}
          /\ OnHand(inventory_items, lines[k].product_variant_id,
                    location_id) >= lines[k].quantity

\* The tier discount and the credit state a create_sale request meets.
CurrentDiscount(customer_id) ==
    IF customers[customer_id].customer_tier_id = None THEN 0
    ELSE customer_tiers[customers[customer_id].customer_tier_id]
           .discount_percentage

WalkIn(customer_id) == customers[customer_id].customer_type = "walk-in"

OverLimit(customer_id, lines) ==
    Balance(customers, customer_id)
      + ExpectedTotal(lines, CurrentDiscount(customer_id))
    > Limit(customers, customer_id)

\* C3: after a successful CreateSale for a customer that is not walk-in the
\* stored balance is <= the credit limit; a CreateSale for such a customer
\* with balance + total > limit does not succeed, and fails with
\* CreditLimitExceeded once the customer, location and stock checks that run
\* before the credit check have passed; a walk-in customer's CreateSale is
\* never rejected with CreditLimitExceeded.
CreditLimitRespected ==
    [][last'.op = "create_sale" =>
        \A company_id \in Companies,
           req \in {r \in CreditSaleRequests : r[1] \in DOMAIN customers} :
          LET customer_id == req[1]
              location_id == req[2]
              lines == req[3]
          IN
          /\ (/\ last'.status = "ok"
              /\ ~WalkIn(customer_id)
              /\ create_sale(company_id, customer_id, location_id,
                             req[4], lines, req[5]))
               => /\ Balance(customers', customer_id)
                       <= Limit(customers', customer_id)
                  /\ ~OverLimit(customer_id, lines)
          /\ (/\ ~WalkIn(customer_id)
              /\ OverLimit(customer_id, lines)
              /\ SaleRefsFound(company_id, customer_id, location_id)
              /\ LinesInStock(location_id, lines)
              /\ create_sale(company_id, customer_id, location_id,
                             req[4], lines, req[5]))
               => last'.status = "CreditLimitExceeded"
          /\ (/\ last'.status = "CreditLimitExceeded"
              /\ WalkIn(customer_id))
               => ~create_sale(company_id, customer_id, location_id,
                               req[4], lines, req[5])
    ]_vars

\* C3 witness: a sale was just refused for credit while the customer, whose
\* credit limit has been lowered, holds a balance from an earlier, accepted
\* sale.
CreditLimitReached ==
    /\ last = Outcome("create_sale", "CreditLimitExceeded")
    /\ \E c \in DOMAIN customers :
          /\ customers[c].customer_type # "walk-in"
          /\ customers[c].credit_limit = Hundredths(1)
          /\ customers[c].current_balance > 0
          /\ customers[c].current_balance <= customers[c].credit_limit
          /\ \E i \in DOMAIN sales : sales[i].customer_id = c

\* C7: a CreateSale of one line of quantity q > 0 for variant V at location
\* L holding s units, all other validations passing, succeeds and leaves
\* s - q when q <= s, and fails with InsufficientStock leaving the stock as
\* it was when q > s or there is no inventory item for (V, L).
SingleLineSale ==
    [][last'.op = "create_sale" =>
        \A company_id \in Companies,
           req \in {r \in SaleRequests :
                     /\ r[1] \in DOMAIN customers
                     /\ r[2] \in Locations
                     /\ Len(r[3]) = 1
                     /\ r[3][1].quantity > 0} :
          LET customer_id == req[1]
              location_id == req[2]
              lines == req[3]
          IN
          (/\ customers[customer_id].company_id = company_id
           /\ storage_locations[location_id].company_id = company_id
           /\ create_sale(company_id, customer_id, location_id, req[4],
                          lines, req[5])
           /\ WalkIn(customer_id) \/ ~OverLimit(customer_id, lines))
          => LET V == lines[1].product_variant_id
                 q == lines[1].quantity
                 present == MatchingItems(inventory_items, V, location_id)
                              # {}
                 s == OnHand(inventory_items, V, location_id)
             IN  IF present /\ q <= s
                 THEN /\ last'.status = "ok"
                      /\ OnHand(inventory_items', V, location_id) = s - q
                 ELSE /\ last'.status = "InsufficientStock"
                      /\ UNCHANGED <<inventory_items, inventory_transactions,
                                     sales, sale_items, customers>>
    ]_vars

\* C7 witness: everything at a location was sold, the stock there is 0, and
\* a further sale has just failed for lack of stock.
SoldOutThenRefused ==
    /\ last = Outcome("create_sale", "InsufficientStock")
    /\ \E i \in DOMAIN inventory_items, k \in DOMAIN sale_items :
          /\ inventory_items[i].quantity = 0
          /\ sale_items[k].quantity > 0
          /\ sales[sale_items[k].sale_id].storage_location_id =
                inventory_items[i].storage_location_id

\* Units returned for a variant by a list of return lines.
ReturnedUnits(returns, variant_id) ==
    SumSeq([k \in DOMAIN returns |->
              IF sale_items[returns[k].sale_item_id].product_variant_id
                   = variant_id
              THEN returns[k].return_quantity ELSE 0])

\* C8: a successful CreateCreditNote returning r units of an invoice line
\* adds exactly r to the stock at the original sale's location and lowers
\* the customer's balance by the value of the r returned units at the
\* original unit price and the customer's current tier discount.
CreditNoteReturnsUnits ==
    [][last' = Outcome("create_credit_note", "ok") =>
        \A company_id \in Companies, original_sale_id \in DOMAIN sales,
           returns \in ReturnLists :
          create_credit_note(company_id, original_sale_id, returns)
          => LET original == sales[original_sale_id]
                 discount == CurrentDiscount(original.customer_id)
                 value == SumSeq([k \in DOMAIN returns |->
                            returns[k].return_quantity *
                            Hundredths(
                              sale_items[returns[k].sale_item_id]
                                .unit_price)])
             IN  /\ \A v \in Variants :
                       OnHand(inventory_items', v,
                              original.storage_location_id)
                       = OnHand(inventory_items, v,
                                original.storage_location_id)
                         + ReturnedUnits(returns, v)
                 /\ Balance(customers', original.customer_id)
                       = Balance(customers, original.customer_id)
                         - (value - (value * discount) \div 100)
    ]_vars

\* C8 witness: a credit note has just returned fewer units than its invoice
\* sold, at a tier discount other than the invoice's.
PartialReturnAtNewTier ==
    /\ last = Outcome("create_credit_note", "ok")
    /\ LET note == sales[Len(sales)] IN
        /\ note.sale_type = "credit_note"
        /\ note.subtotal < 0
        /\ -note.subtotal < sales[note.original_sale_id].subtotal
        /\ note.discount_percentage
             # sales[note.original_sale_id].discount_percentage
        /\ note.discount_percentage > 0

-----------------------------------------------------------------------------
(* Properties of the payment explorations (SpecPay, SpecDue).              *)

\* C2: every sale, invoice or credit note, has
\* amount_paid + amount_due = total_amount, at creation and after every
\* RecordPayment on it, accepted or refused.
PaidPlusDueIsTotal ==
    \A i \in DOMAIN sales :
        sales[i].amount_paid + sales[i].amount_due = sales[i].total_amount

\* C2 witness: a payment was accepted on an invoice, another was refused,
\* and a credit note exists.
PaymentsOnSales ==
    /\ last = Outcome("record_payment", "ExceedsAmountDue")
    /\ \E i \in DOMAIN sales :
          sales[i].sale_type = "invoice" /\ sales[i].amount_paid > 0
    /\ \E i \in DOMAIN sales : sales[i].sale_type = "credit_note"

\* A request whose method and reference number pass the validation that
\* record_payment runs first.
ReferenceAccepted(payment_method, reference_number) ==
    IF payment_method = "cash" THEN reference_number = None
    ELSE reference_number # None

\* C5: RecordPayment with amount > amount_due, on a sale or on an expense,
\* is refused and leaves the payment rows, the target and every customer as
\* they were, so that the same request is refused again.  On an expense the
\* refusal is always ExceedsAmountDue; on a sale it is ExceedsAmountDue when
\* the method and reference number pass the validation that runs first
\* (sales.py lines 655-666), and that validation's error otherwise.
OverpaymentRefused ==
    /\ [][last'.op = "record_payment" =>
            \A company_id \in Companies, sale_id \in DOMAIN sales,
               amount \in PayAmounts, payment_method \in Methods,
               reference_number \in References :
              (/\ amount > sales[sale_id].amount_due
               /\ record_payment(company_id, sale_id, amount,
                                 payment_method, reference_number))
              => /\ last'.status # "ok"
                 /\ ReferenceAccepted(payment_method, reference_number)
                      => last'.status = "ExceedsAmountDue"
                 /\ UNCHANGED <<sale_payments, sales, customers,
                                expense_payments, expenses>>
                 /\ amount > sales'[sale_id].amount_due
       ]_vars
    /\ [][last'.op = "record_expense_payment" =>
            \A company_id \in Companies, expense_id \in DOMAIN expenses,
               amount \in PayAmounts, payment_method \in Methods,
               reference_number \in References :
              (/\ amount > expenses[expense_id].amount_due
               /\ record_expense_payment(company_id, expense_id, amount,
                                         payment_method, reference_number))
              => /\ last'.status = "ExceedsAmountDue"
                 /\ UNCHANGED <<sale_payments, sales, customers,
                                expense_payments, expenses>>
                 /\ amount > expenses'[expense_id].amount_due
       ]_vars

\* C5 as stated: RecordPayment with amount > amount_due, on a sale or on an
\* expense, fails with ExceedsAmountDue whatever its method and reference
\* number are, and changes nothing.
OverpaymentAlwaysExceedsAmountDue ==
    /\ [][last'.op = "record_payment" =>
            \A company_id \in Companies, sale_id \in DOMAIN sales,
               amount \in PayAmounts, payment_method \in Methods,
               reference_number \in References :
              (/\ amount > sales[sale_id].amount_due
               /\ record_payment(company_id, sale_id, amount,
                                 payment_method, reference_number))
              => /\ last'.status = "ExceedsAmountDue"
                 /\ UNCHANGED <<sale_payments, sales, customers,
                                expense_payments, expenses>>
       ]_vars
    /\ [][last'.op = "record_expense_payment" =>
            \A company_id \in Companies, expense_id \in DOMAIN expenses,
               amount \in PayAmounts, payment_method \in Methods,
               reference_number \in References :
              (/\ amount > expenses[expense_id].amount_due
               /\ record_expense_payment(company_id, expense_id, amount,
                                         payment_method, reference_number))
              => /\ last'.status = "ExceedsAmountDue"
                 /\ UNCHANGED <<sale_payments, sales, customers,
                                expense_payments, expenses>>
       ]_vars

\* C5 witness: a payment has just been refused as exceeding the amount due,
\* with a partly paid sale and a partly paid expense present.
OverpaymentSeen ==
    /\ last.status = "ExceedsAmountDue"
    /\ \E i \in DOMAIN sales :
          sales[i].amount_paid > 0 /\ sales[i].amount_due > 0
    /\ \E i \in DOMAIN expenses :
          expenses[i].amount_paid > 0 /\ expenses[i].amount_due > 0

StatusRank(payment_status) ==
    CASE payment_status = "unpaid" -> 0
      [] payment_status = "partial" -> 1
      [] payment_status = "paid" -> 2

\* C6: for a sale with total_amount > 0 the payment status only moves
\* forward along unpaid, partial, paid: an accepted payment leaves it
\* partial while amount_due > 0 and paid once amount_due is 0, and once
\* paid every further payment is refused and changes nothing: with
\* ExceedsAmountDue when its method and reference number pass the
\* validation that runs first (sales.py lines 655-666), and with that
\* validation's error when they do not.
StatusMovesForward ==
    /\ [][\A i \in DOMAIN sales :
            sales[i].total_amount > 0 =>
              StatusRank(sales'[i].payment_status)
                >= StatusRank(sales[i].payment_status)
       ]_vars
    /\ [][last'.op = "record_payment" =>
            \A company_id \in Companies, sale_id \in DOMAIN sales,
               amount \in PayAmounts, payment_method \in Methods,
               reference_number \in References :
              (/\ sales[sale_id].total_amount > 0
               /\ record_payment(company_id, sale_id, amount,
                                 payment_method, reference_number))
              => /\ last'.status = "ok" =>
                      /\ sales'[sale_id].amount_due
                           = sales[sale_id].amount_due - amount
                      /\ sales'[sale_id].amount_due >= 0
                      /\ sales'[sale_id].payment_status =
                           IF sales'[sale_id].amount_due > 0
                           THEN "partial" ELSE "paid"
                 /\ sales[sale_id].payment_status = "paid" =>
                      /\ last'.status =
                           IF ReferenceAccepted(payment_method,
                                                reference_number)
                           THEN "ExceedsAmountDue"
                           ELSE "ValidationError"
                      /\ UNCHANGED <<sales, sale_payments, customers>>
       ]_vars

\* C6 as stated: the status only moves forward, an accepted payment leaves
\* the sale partial or paid by its amount_due, and once the sale is paid
\* every further payment fails with ExceedsAmountDue, whatever its method
\* and reference number are.
StatusMovesForwardAsStated ==
    /\ [][\A i \in DOMAIN sales :
            sales[i].total_amount > 0 =>
              StatusRank(sales'[i].payment_status)
                >= StatusRank(sales[i].payment_status)
       ]_vars
    /\ [][last'.op = "record_payment" =>
            \A company_id \in Companies, sale_id \in DOMAIN sales,
               amount \in PayAmounts, payment_method \in Methods,
               reference_number \in References :
              (/\ sales[sale_id].total_amount > 0
               /\ record_payment(company_id, sale_id, amount,
                                 payment_method, reference_number))
              => /\ last'.status = "ok" =>
                      /\ sales'[sale_id].amount_due
                           = sales[sale_id].amount_due - amount
                      /\ sales'[sale_id].amount_due >= 0
                      /\ sales'[sale_id].payment_status =
                           IF sales'[sale_id].amount_due > 0
                           THEN "partial" ELSE "paid"
                 /\ sales[sale_id].payment_status = "paid" =>
                      last'.status = "ExceedsAmountDue"
       ]_vars

\* C6 witness: a sale went unpaid, partial, paid over two payments and a
\* further payment on it has just been refused.
PaidInTwoSteps ==
    /\ last = Outcome("record_payment", "ExceedsAmountDue")
    /\ \E i \in DOMAIN sales :
          /\ sales[i].total_amount > 0
          /\ sales[i].payment_status = "paid"
          /\ sales[i].amount_due = 0
          /\ Cardinality({k \in DOMAIN sale_payments :
                            sale_payments[k].sale_id = i}) = 2
    /\ \A i \in DOMAIN sales : sales[i].payment_status = "paid"

\* C10: the stored payment status of every sale is the function of its
\* amounts: paid if amount_due <= 0, else partial if amount_paid > 0, else
\* unpaid.
StatusIsDerived ==
    \A i \in DOMAIN sales :
        sales[i].payment_status =
          IF sales[i].amount_due <= 0 THEN "paid"
          ELSE IF sales[i].amount_paid > 0 THEN "partial"
          ELSE "unpaid"

-----------------------------------------------------------------------------
(* Properties of the stock-ledger exploration (SpecLedger).                *)

IsPrefix(s, t) ==
    /\ Len(s) <= Len(t)
    /\ \A i \in DOMAIN s : s[i] = t[i]

\* The log holds a row written as the reversal of transaction t.
ReversalLogged(log, t) ==
    \E i \in DOMAIN log :
        log[i].reference_type = "reversal" /\ log[i].reference_id = t

\* C4: once Reverse(t) has succeeded, every later Reverse(t) fails with
\* AlreadyReversed, changes no quantity and appends no transaction: a
\* successful Reverse(t) leaves its reversal row in the log, no request
\* removes or alters a row of the log, and Reverse(t) with that row present
\* is refused with everything left as it was.
ReverseOnlyOnce ==
    /\ [][IsPrefix(inventory_transactions, inventory_transactions')]_vars
    /\ [][last'.op = "reverse_transaction" =>
            \A company_id \in Companies,
               t \in DOMAIN inventory_transactions :
              reverse_transaction(company_id, t)
              => /\ last'.status = "ok" =>
                      ReversalLogged(inventory_transactions', t)
                 /\ ReversalLogged(inventory_transactions, t) =>
                      /\ last'.status = "AlreadyReversed"
                      /\ UNCHANGED <<inventory_items,
                                     inventory_transactions>>
       ]_vars

\* C4 witness: a transaction that was reversed has just been refused a
\* second reversal.
SecondReverseRefused ==
    /\ last = Outcome("reverse_transaction", "AlreadyReversed")
    /\ \E t \in DOMAIN inventory_transactions :
          ReversalLogged(inventory_transactions, t)

\* C9: a successful Reverse of a stock_in, stock_out or transfer of
\* quantity q applies the inverse movement: -q at L for a stock_in at L,
\* +q at L for a stock_out at L, and -q at B with +q at A for a transfer
\* from A to B.
ReverseIsInverse ==
    [][last' = Outcome("reverse_transaction", "ok") =>
        \A company_id \in Companies, t \in DOMAIN inventory_transactions :
          reverse_transaction(company_id, t)
          => LET T == inventory_transactions[t]
                 q == T.quantity
                 before(l) == OnHand(inventory_items,
                                     T.product_variant_id, l)
                 after(l) == OnHand(inventory_items',
                                    T.product_variant_id, l)
             IN  CASE T.transaction_type = "in" ->
                        after(T.to_location_id)
                          = before(T.to_location_id) - q
                   [] T.transaction_type = "out" ->
                        after(T.from_location_id)
                          = before(T.from_location_id) + q
                   [] T.transaction_type = "transfer" ->
                        /\ after(T.to_location_id)
                             = before(T.to_location_id) - q
                        /\ after(T.from_location_id)
                             = before(T.from_location_id) + q
                   [] OTHER -> TRUE
    ]_vars


-----------------------------------------------------------------------------
(* Properties of the reference-number rule (SpecDue).                      *)

\* C14: RecordPayment on a sale and on an expense fails with a validation
\* error, inserts no payment row and leaves the target unchanged, when the
\* method needs a reference number and none is given, and when the method is
\* cash and a reference number is given.
ReferenceRuleEnforced ==
    /\ [][last'.op = "record_payment" =>
            \A company_id \in Companies, sale_id \in DOMAIN sales,
               amount \in PayAmounts, payment_method \in Methods,
               reference_number \in References :
              (/\ ~ReferenceAccepted(payment_method, reference_number)
               /\ record_payment(company_id, sale_id, amount,
                                 payment_method, reference_number))
              => /\ last'.status = "ValidationError"
                 /\ UNCHANGED <<sale_payments, sales, customers>>
       ]_vars
    /\ [][last'.op = "record_expense_payment" =>
            \A company_id \in Companies, expense_id \in DOMAIN expenses,
               amount \in PayAmounts, payment_method \in Methods,
               reference_number \in References :
              (/\ ~ReferenceAccepted(payment_method, reference_number)
               /\ record_expense_payment(company_id, expense_id, amount,
                                         payment_method, reference_number))
              => /\ last'.status = "ValidationError"
                 /\ UNCHANGED <<expense_payments, expenses>>
       ]_vars


-----------------------------------------------------------------------------
(* Properties of the validations of sales and credit notes (SpecNote,      *)
(* Spec).                                                                  *)

\* A return line that names no line of the original sale.
NotALine(original_sale_id, return_item) ==
    \/ return_item.sale_item_id \notin DOMAIN sale_items
    \/ sale_items[return_item.sale_item_id].sale_id # original_sale_id

\* A return line that takes back more than its line sold.
TooMany(original_sale_id, return_item) ==
    /\ ~NotALine(original_sale_id, return_item)
    /\ return_item.return_quantity
         > sale_items[return_item.sale_item_id].quantity

\* The first return line that is refused, 0 when every line is accepted.
FirstBadLine(original_sale_id, returns) ==
    LET bad == {k \in DOMAIN returns :
                  \/ NotALine(original_sale_id, returns[k])
                  \/ TooMany(original_sale_id, returns[k])}
    IN  IF bad = {} THEN 0 ELSE Min(bad)

\* C17: CreateCreditNote fails with InvalidOperation when the original sale
\* is not an invoice, and otherwise with the error of its first refused
\* return line: NotFound when the line names no line of the original sale,
\* InvalidQuantity when it returns more than the line sold.  A failed
\* CreateCreditNote creates no sale and no sale item, changes no stock,
\* appends nothing to the log and leaves every customer's balance.
CreditNoteRefusals ==
    [][last'.op = "create_credit_note" =>
        \A company_id \in Companies, original_sale_id \in DOMAIN sales,
           returns \in NoteReturnLists :
          LET k == FirstBadLine(original_sale_id, returns)
              invoice == sales[original_sale_id].sale_type = "invoice"
          IN  \/ /\ ~invoice => last'.status = "InvalidOperation"
                 /\ (invoice /\ k # 0) =>
                      last'.status =
                        IF NotALine(original_sale_id, returns[k])
                        THEN "NotFound" ELSE "InvalidQuantity"
                 /\ (invoice /\ k = 0) => last'.status = "ok"
                 /\ last'.status # "ok" =>
                      UNCHANGED <<inventoryVars, salesVars>>
              \/ ~create_credit_note(company_id, original_sale_id, returns)
    ]_vars

\* C17 witness: a credit note was just refused because its original is
\* itself a credit note.
CreditNoteOnCreditNote ==
    /\ last = Outcome("create_credit_note", "InvalidOperation")
    /\ \E i \in DOMAIN sales : sales[i].sale_type = "credit_note"

\* The outcome the validations of create_sale give a request, in the order
\* customer, location, stock, credit.
ExpectedSaleOutcome(company_id, customer_id, location_id, lines) ==
    IF \/ customer_id \notin DOMAIN customers
       \/ customers[customer_id].company_id # company_id
    THEN "NotFound"
    ELSE IF ~SaleRefsFound(company_id, customer_id, location_id)
    THEN "NotFound"
    ELSE IF ~LinesInStock(location_id, lines)
    THEN "InsufficientStock"
    ELSE IF ~WalkIn(customer_id) /\ OverLimit(customer_id, lines)
    THEN "CreditLimitExceeded"
    ELSE "ok"

\* C18: CreateSale reports the first failing check in the order customer
\* (NotFound), location (NotFound), stock of every line of positive quantity
\* (InsufficientStock), credit limit (CreditLimitExceeded), and a failed
\* CreateSale creates no sale and no sale item, appends nothing to the log
\* and changes no stock quantity and no customer balance.
SaleValidationOrder ==
    [][last'.op = "create_sale" =>
        \A company_id \in Companies, req \in SaleRequests :
          \/ /\ last'.status =
                  ExpectedSaleOutcome(company_id, req[1], req[2], req[3])
             /\ last'.status # "ok" =>
                  UNCHANGED <<inventoryVars, salesVars>>
          \/ ~create_sale(company_id, req[1], req[2], req[4], req[3], req[5])
    ]_vars

\* C18 witness: a sale was just refused for stock while the business
\* customer's balance leaves no room for a sale of two units either.
StockRefusedBeforeCredit ==
    /\ last = Outcome("create_sale", "InsufficientStock")
    /\ sales # <<>>
    /\ customers["c1"].current_balance >= 180


-----------------------------------------------------------------------------
(* Properties of the stock-update exploration (SpecDelta).                 *)

\* The rows of other (variant, location) pairs are as they were.
OtherRowsKept(variant_id, location_id) ==
    \A i \in DOMAIN inventory_items :
        i \notin MatchingItems(inventory_items, variant_id, location_id)
          => /\ i \in DOMAIN inventory_items'
             /\ inventory_items'[i] = inventory_items[i]

\* C15: update_inventory_quantity with no row for (variant, location)
\* creates one holding the change when the change is >= 0 and otherwise
\* fails creating nothing; with a row holding c it fails with
\* InsufficientStock, leaving c, when c + change < 0 and otherwise stores
\* exactly c + change.  No row of another (variant, location) is touched.
ApplyDeltaContract ==
    [][last'.op = "update_inventory_quantity" =>
        \A company_id \in Companies, target \in DeltaTargets,
           quantity_change \in Deltas :
          ApplyDelta(company_id, target[1], target[2], quantity_change)
          => LET variant_id == target[1]
                 location_id == target[2]
                 m == MatchingItems(inventory_items, variant_id,
                                    location_id)
                 c == OnHand(inventory_items, variant_id, location_id)
                 n == Len(inventory_items)
             IN  /\ OtherRowsKept(variant_id, location_id)
                 /\ (m = {} /\ quantity_change >= 0) =>
                      /\ last'.status = "ok"
                      /\ Len(inventory_items') = n + 1
                      /\ inventory_items'[n + 1].product_variant_id
                           = variant_id
                      /\ inventory_items'[n + 1].storage_location_id
                           = location_id
                      /\ inventory_items'[n + 1].quantity = quantity_change
                 /\ (m = {} /\ quantity_change < 0) =>
                      /\ last'.status # "ok"
                      /\ inventory_items' = inventory_items
                 /\ (m # {} /\ c + quantity_change < 0) =>
                      /\ last'.status = "InsufficientStock"
                      /\ inventory_items' = inventory_items
                 /\ (m # {} /\ c + quantity_change >= 0) =>
                      /\ last'.status = "ok"
                      /\ Len(inventory_items') = n
                      /\ OnHand(inventory_items', variant_id, location_id)
                           = c + quantity_change
    ]_vars

\* C15 witness: a change was just refused for stock at one location while
\* the other location holds a row too.
DeltaRefusedForStock ==
    /\ last = Outcome("update_inventory_quantity", "InsufficientStock")
    /\ Len(inventory_items) = 2

-----------------------------------------------------------------------------
(* Properties of the adjustment exploration (SpecAdjust).                  *)

\* C19: Record of an adjustment requires exactly one of from_location_id and
\* to_location_id.  It is rejected, writing nothing, when neither is given
\* and when both are given; accepted with only to_location_id it adds the
\* quantity at that location, accepted with only from_location_id it
\* subtracts the quantity at that location.
AdjustmentNeedsOneSide ==
    [][last'.op = "create_inventory_transaction" =>
        \A company_id \in Companies, variant_id \in Variants,
           req \in AdjustmentRequests, quantity \in Quantities :
          create_inventory_transaction(company_id, variant_id,
                                       TransactionType.adjustment, quantity,
                                       req[1], req[2], None, NoId)
          => LET from == req[1]
                 to == req[2]
                 before(l) == OnHand(inventory_items, variant_id, l)
                 after(l) == OnHand(inventory_items', variant_id, l)
             IN  IF (from = None) = (to = None)
                 THEN /\ last'.status # "ok"
                      /\ UNCHANGED inventoryVars
                 ELSE last'.status = "ok" =>
                        IF to # None
                        THEN after(to) = before(to) + quantity
                        ELSE after(from) = before(from) - quantity
    ]_vars

-----------------------------------------------------------------------------
(* Properties of the tenancy exploration (SpecTenant).                     *)

\* The rows of other companies are as they were: stock quantities, sales and
\* customers whose company_id is not the company of the request.
OtherTenantsKept(company_id) ==
    /\ \A i \in DOMAIN inventory_items :
         inventory_items[i].company_id # company_id
         => /\ i \in DOMAIN inventory_items'
            /\ inventory_items'[i].quantity = inventory_items[i].quantity
    /\ \A s \in DOMAIN sales :
         sales[s].company_id # company_id
         => s \in DOMAIN sales' /\ sales'[s] = sales[s]
    /\ \A c \in DOMAIN customers :
         customers[c].company_id # company_id
         => c \in DOMAIN customers' /\ customers'[c] = customers[c]

\* The request names a variant, a transaction or a sale of another company.
ForeignVariant(company_id, variant_id) ==
    /\ variant_id \in Variants
    /\ product_variants[variant_id].company_id # company_id
ForeignTransaction(company_id, transaction_id) ==
    /\ transaction_id \in DOMAIN inventory_transactions
    /\ inventory_transactions[transaction_id].company_id # company_id
ForeignSale(company_id, sale_id) ==
    /\ sale_id \in DOMAIN sales
    /\ sales[sale_id].company_id # company_id

\* C13: no operation invoked on behalf of a company (Record, AdjustStock,
\* Reverse, CreateSale, CreateCreditNote, RecordPayment) changes the quantity
\* of an inventory item, or a sale or customer row, of another company, and a
\* request that names an entity of another company is refused as NotFound.
TenantIsolation ==
    [][\A company_id \in Tenants :
        /\ \A variant_id \in Variants, quantity \in Quantities :
             \/ ~create_inventory_transaction(company_id, variant_id, "in",
                                              quantity, None, "l1", None, NoId)
             \/ /\ OtherTenantsKept(company_id)
                /\ ForeignVariant(company_id, variant_id)
                   => last'.status = "NotFound"
        /\ \A variant_id \in Variants, quantity_change \in {-1, 1} :
             \/ ~adjust_stock(company_id, variant_id, "l1", quantity_change)
             \/ /\ OtherTenantsKept(company_id)
                /\ ForeignVariant(company_id, variant_id)
                   => last'.status = "NotFound"
        /\ \A transaction_id \in 1..MaxTxns :
             \/ ~reverse_transaction(company_id, transaction_id)
             \/ /\ OtherTenantsKept(company_id)
                /\ ForeignTransaction(company_id, transaction_id)
                   => last'.status = "NotFound"
        /\ \/ ~create_sale(company_id, "c2", "l1", "invoice", OneLine, NoId)
           \/ /\ OtherTenantsKept(company_id)
              /\ customers["c2"].company_id # company_id
                 => last'.status = "NotFound"
        /\ \A original_sale_id \in 1..MaxSales :
             \/ ~create_credit_note(company_id, original_sale_id,
                                    <<[sale_item_id |-> original_sale_id,
                                       return_quantity |-> 1]>>)
             \/ /\ OtherTenantsKept(company_id)
                /\ ForeignSale(company_id, original_sale_id)
                   => last'.status = "NotFound"
        /\ \A sale_id \in 1..MaxSales :
             \/ ~record_payment(company_id, sale_id, 50, "cash", None)
             \/ /\ OtherTenantsKept(company_id)
                /\ ForeignSale(company_id, sale_id)
                   => last'.status = "NotFound"
    ]_vars

-----------------------------------------------------------------------------
(* Properties of the recurring-expense exploration (SpecDates).            *)

\* The dates of the children of the recurring expense in row p, in the order
\* of their insertion.
ChildDates(p) ==
    LET kids == SelectSeq([k \in DOMAIN expenses |-> k],
                          LAMBDA k : expenses[k].parent_expense_id = p)
    IN  [j \in DOMAIN kids |-> expenses[kids[j]].expense_date]

\* The contract of the weekly dates of a start date S, weekday d and end
\* date E.
WeeklyContract(S, d, E, dates) ==
    LET n == Len(dates) IN
    /\ E = NoDate => n = 12
    /\ \A j \in 1..n : weekday(dates[j]) = d
    /\ n > 0 => dates[1] > S /\ dates[1] <= S + 7
    /\ \A j \in 1..(n - 1) : dates[j + 1] = dates[j] + 7
    /\ n > 0 => dates[n] <= S + 365
    /\ E # NoDate =>
         /\ n <= 12
         /\ \A j \in 1..n : dates[j] <= E /\ dates[j] <= S + 365

\* The request that is writing the children of the expense in row p.
Writing(p) ==
    {w \in Workers : calls[w].pc = "child_insert" /\ calls[w].new_id = p}

\* C16: the dates generated for a weekly recurring expense with start date S
\* and weekday d.  With no end date there are exactly 12; every date falls on
\* weekday d, the first is strictly after S and at most 7 days after it,
\* consecutive dates are exactly 7 days apart, and the last is at most
\* S + 365.  With an end date E no date exceeds the smaller of E and S + 365
\* and there are at most 12.  This holds of the dates a request has
\* generated; while the request writes its children, those written are the
\* first of these dates in their order, and once it has answered the dates
\* of the children are these dates.
WeeklyDatesContract ==
    /\ \A w \in Workers :
         LET c == calls[w] IN
         (c.pc = "child_insert" /\ c.expense.recurrence_frequency = "weekly")
           => /\ WeeklyContract(c.expense.expense_date,
                                c.expense.recurrence_day_of_week,
                                c.expense.recurrence_end_date,
                                c.recurring_dates)
              /\ ChildDates(c.new_id)
                   = SubSeq(c.recurring_dates, 1, c.k - 1)
    /\ \A p \in DOMAIN expenses :
         (/\ expenses[p].parent_expense_id = NoId
          /\ expenses[p].recurrence_frequency = "weekly"
          /\ Writing(p) = {})
           => WeeklyContract(expenses[p].expense_date,
                             expenses[p].recurrence_day_of_week,
                             expenses[p].recurrence_end_date,
                             ChildDates(p))

\* A recurring expense that starts on a Monday, for Thursdays, with no end
\* date, has been answered with its twelve children written.
TwelveThursdays ==
    /\ last = Outcome("create_expense", "ok")
    /\ \A w \in Workers : calls[w].pc = "idle"
    /\ weekday(expenses[1].expense_date) = 0
    /\ expenses[1].recurrence_frequency = "weekly"
    /\ expenses[1].recurrence_day_of_week = 3
    /\ expenses[1].recurrence_end_date = NoDate
    /\ Len(ChildDates(1)) = 12

-----------------------------------------------------------------------------
(* Properties of the interleaved sales (SpecOversell).                     *)

\* The places of create_sale after its stock and credit checks.
PastSaleCheck ==
    {"sale_insert", "item_insert", "stock_read", "stock_write", "stock_log",
     "balance"}

\* Units delivered, and units sold on invoices.
Stocked ==
    SumSeq([k \in DOMAIN inventory_transactions |->
              IF inventory_transactions[k].reference_type = None
              THEN inventory_transactions[k].quantity ELSE 0])
Sold ==
    SumSeq([k \in DOMAIN sale_items |->
              IF sale_items[k].quantity > 0 THEN sale_items[k].quantity
              ELSE 0])

\* C12: two CreateSale requests for the same variant and location whose
\* steps interleave can both pass the stock check and both succeed although
\* their combined quantity exceeds the stock on hand.  A line of a request
\* passes its stock check exactly when the stock on hand at that call
\* covers the quantity of that line, whatever other requests and the other
\* lines of the request have checked; past its checks a request is never
\* refused; and for each line it writes the quantity it read less the
\* quantity of the line.
SalesCheckAlone ==
    [][\A w \in Workers :
        LET c == calls[w]
            line == c.lines[c.k]
            s == OnHand(inventory_items, "v1", "l1")
            present == MatchingItems(inventory_items, "v1", "l1") # {}
            last_checked == NextChecked(c.lines, c.k + 1) = 0
        IN  /\ (c.pc = "sale_check"
                /\ (calls'[w].pc # "sale_check" \/ calls'[w].k # c.k))
               => /\ (present /\ s >= line.quantity)
                     <=> ~(calls'[w].pc = "idle"
                           /\ last'.status = "InsufficientStock")
                  /\ calls'[w].pc = "sale_check"
                     <=> /\ present /\ s >= line.quantity
                         /\ ~last_checked
                  /\ calls'[w].pc = "sale_insert"
                     <=> /\ present /\ s >= line.quantity
                         /\ last_checked
                         /\ ~CreditExceeded(c.customer,
                                            ExpectedTotal(c.lines,
                                                          c.discount))
            /\ (c.pc \in PastSaleCheck /\ calls'[w].pc = "idle")
               => c.pc = "balance" /\ last' = Outcome("create_sale", "ok")
            /\ (c.pc = "stock_write" /\ calls'[w].pc = "stock_log"
                /\ c.item # 0)
               => inventory_items'[c.item].quantity
                    = c.current_qty - line.quantity
    ]_vars

\* Both sales were accepted and more units were sold than were delivered.
Oversold ==
    /\ \A w \in Workers : calls[w].pc = "idle"
    /\ Len(sales) = 2
    /\ Len(sale_items) = 2
    /\ Len(inventory_transactions) = 3
    /\ Stocked > 0
    /\ Sold > Stocked

-----------------------------------------------------------------------------
(* Properties of the interleaved sales, credit notes and payments          *)
(* (SpecBalance).                                                          *)

\* The ledger of a customer: the totals of its sales, credit notes counted
\* with their negative totals, less the payments recorded against them.
LedgerBalance(customer_id) ==
    SumSeq([s \in DOMAIN sales |->
              IF sales[s].customer_id = customer_id
              THEN sales[s].total_amount ELSE 0])
    - SumSeq([p \in DOMAIN sale_payments |->
                IF sales[sale_payments[p].sale_id].customer_id = customer_id
                THEN sale_payments[p].amount ELSE 0])

\* C11: under any interleaving of the steps of CreateSale, CreateCreditNote
\* and RecordPayment requests, once no request is in flight each customer's
\* current_balance equals the sum of the totals of its sales less the sum of
\* the payments recorded against them.
BalanceIsLedger ==
    (\A w \in Workers : calls[w].pc = "idle")
    => \A customer_id \in DOMAIN customers :
         customers[customer_id].current_balance = LedgerBalance(customer_id)

-----------------------------------------------------------------------------
(* Properties of the interleaved deliveries and adjustments (SpecRows).    *)

\* C20: there is at most one inventory item per variant and location, also
\* when two stock-adding operations for a pair that has no row yet
\* interleave their read and their insert.
OneRowPerPair ==
    \A variant_id \in VariantIds, location_id \in Locations :
        Cardinality(MatchingItems(inventory_items, variant_id, location_id))
          <= 1


------------------------------------------------------------------------------
(* Properties of the audit exploration (SpecAudit).                         *)

\* C21: the stock log and the payment tables are append-only: no request
\* removes or alters a row of inventory_transactions, sale_payments or
\* expense_payments, and a successful Reverse(t) leaves row t as it was
\* and appends exactly one row, tagged reference_type "reversal" with
\* reference_id = t.
LogsAppendOnly ==
    /\ [][/\ IsPrefix(inventory_transactions, inventory_transactions')
          /\ IsPrefix(sale_payments, sale_payments')
          /\ IsPrefix(expense_payments, expense_payments')]_vars
    /\ [][last' = Outcome("reverse_transaction", "ok") =>
            \A company_id \in Companies, t \in 1..(MaxTxns + 1) :
              reverse_transaction(company_id, t)
              => LET n == Len(inventory_transactions) IN
                 /\ Len(inventory_transactions') = n + 1
                 /\ inventory_transactions'[t] = inventory_transactions[t]
                 /\ inventory_transactions'[n + 1].reference_type
                      = "reversal"
                 /\ inventory_transactions'[n + 1].reference_id = t
       ]_vars

\* C21 witness: a reversal has just been appended to a log that holds the
\* reversed row, with payments on a sale and on an expense on file.
ReversalAppended ==
    /\ last = Outcome("reverse_transaction", "ok")
    /\ sale_payments # <<>>
    /\ expense_payments # <<>>
    /\ \E t \in DOMAIN inventory_transactions :
          /\ inventory_transactions[t].reference_type # "reversal"
          /\ ReversalLogged(inventory_transactions, t)


\* C22: a successful RecordPayment on a sale lowers the current_balance of
\* that sale's customer by exactly the amount paid and leaves every other
\* customer's balance alone; RecordPayment on an expense, accepted or
\* refused, leaves every customer and every sale as it was, also when the
\* expense names a sale.
PaymentMovesOnlyItsBalance ==
    /\ [][last' = Outcome("record_payment", "ok") =>
            \A company_id \in Companies, sale_id \in DOMAIN sales,
               amount \in PayAmounts, payment_method \in Methods,
               reference_number \in References :
              record_payment(company_id, sale_id, amount, payment_method,
                             reference_number)
              => \A c \in DOMAIN customers :
                   customers'[c].current_balance =
                     IF c = sales[sale_id].customer_id
                     THEN customers[c].current_balance - amount
                     ELSE customers[c].current_balance
       ]_vars
    /\ [][last'.op = "record_expense_payment" =>
            \A company_id \in Companies,
               expense_id \in 1..(MaxExpenses + 1),
               amount \in PayAmounts, payment_method \in Methods,
               reference_number \in References :
              record_expense_payment(company_id, expense_id, amount,
                                     payment_method, reference_number)
              => UNCHANGED <<customers, sales>>
       ]_vars

\* C22 witness: an expense that names a sale has just been paid in part,
\* after a payment on that sale lowered its customer's balance.
SaleExpensePaid ==
    /\ last = Outcome("record_expense_payment", "ok")
    /\ \E e \in DOMAIN expenses :
          /\ expenses[e].sale_id \in DOMAIN sales
          /\ expenses[e].amount_paid > 0
          /\ \E p \in DOMAIN sale_payments :
                sale_payments[p].sale_id = expenses[e].sale_id


\* C23: every inventory operation is all-or-nothing: whenever Record (a
\* transfer included), AdjustStock or Reverse (the reversal of a transfer
\* included) answers with an error, no quantity of inventory_items has
\* changed and no row has been appended to inventory_transactions.
InventoryAllOrNothing ==
    [][/\ last'.op \in {"create_inventory_transaction", "adjust_stock",
                        "reverse_transaction"}
       /\ last'.status # "ok"
       => UNCHANGED <<inventory_items, inventory_transactions>>]_vars


\* C24: Reverse of an adjustment applies no stock movement: if the
\* adjustment has no reversal yet, Reverse succeeds, changes no quantity
\* and appends one row tagged reference_type "reversal" with the
\* adjustment's id; once that row is there, Reverse of the same adjustment
\* is refused with AlreadyReversed.
AdjustmentReversalMovesNothing ==
    [][last'.op = "reverse_transaction" =>
        \A company_id \in Companies, t \in DOMAIN inventory_transactions :
          /\ inventory_transactions[t].transaction_type = "adjustment"
          /\ reverse_transaction(company_id, t)
          => /\ UNCHANGED inventory_items
             /\ IF ReversalLogged(inventory_transactions, t)
                THEN /\ last'.status = "AlreadyReversed"
                     /\ UNCHANGED inventory_transactions
                ELSE /\ last'.status = "ok"
                     /\ Len(inventory_transactions')
                          = Len(inventory_transactions) + 1
                     /\ IsPrefix(inventory_transactions,
                                 inventory_transactions')
                     /\ ReversalLogged(inventory_transactions', t)
      ]_vars

\* C24 witness: an adjustment that added stock has been reversed, its
\* stock is still on hand, and a second Reverse has just been refused.
AdjustmentReversedTwice ==
    /\ last = Outcome("reverse_transaction", "AlreadyReversed")
    /\ \E t \in DOMAIN inventory_transactions :
          LET T == inventory_transactions[t] IN
          /\ T.transaction_type = "adjustment"
          /\ T.reference_type # "reversal"
          /\ T.to_location_id # None
          /\ ReversalLogged(inventory_transactions, t)
          /\ Len(inventory_transactions) = 2
          /\ OnHand(inventory_items, T.product_variant_id,
                    T.to_location_id) = T.quantity


\* C25: a successful CreateSale stores a sale with subtotal = the sum of
\* quantity * unit_price over its lines, discount_amount = subtotal *
\* tier discount / 100 (0 for a customer without a tier), total_amount =
\* subtotal - discount_amount, payment_status unpaid, amount_paid 0 and
\* amount_due = total_amount, and raises the customer's current_balance by
\* exactly total_amount.
SaleTotalsStored ==
    [][last' = Outcome("create_sale", "ok") =>
        \A company_id \in Companies,
           req \in {r \in CreditSaleRequests : r[1] \in DOMAIN customers} :
          create_sale(company_id, req[1], req[2], req[4], req[3], req[5])
          => LET customer_id == req[1]
                 lines == req[3]
                 sub == SumSeq([k \in DOMAIN lines |->
                                  lines[k].quantity *
                                    Hundredths(lines[k].unit_price)])
                 disc == (sub * CurrentDiscount(customer_id)) \div 100
                 sale == sales'[Len(sales) + 1]
             IN  /\ Len(sales') = Len(sales) + 1
                 /\ IsPrefix(sales, sales')
                 /\ sale.customer_id = customer_id
                 /\ sale.sale_type = req[4]
                 /\ sale.original_sale_id = req[5]
                 /\ sale.subtotal = sub
                 /\ sale.discount_amount = disc
                 /\ sale.total_amount = sub - disc
                 /\ sale.payment_status = "unpaid"
                 /\ sale.amount_paid = 0
                 /\ sale.amount_due = sale.total_amount
                 /\ Balance(customers', customer_id)
                      = Balance(customers, customer_id) + sale.total_amount
      ]_vars

\* C25 witness: a sale of two lines at a tier discount has just been
\* stored.
DiscountedSaleStored ==
    /\ last = Outcome("create_sale", "ok")
    /\ sales # <<>>
    /\ LET sale == sales[Len(sales)] IN
       /\ sale.sale_type = "invoice"
       /\ sale.discount_amount > 0
       /\ sale.subtotal >= 200
       /\ Cardinality({i \in DOMAIN sale_items :
                         sale_items[i].sale_id = Len(sales)}) = 2


\* The net quantity the log records for a variant at a location: what was
\* moved to the location minus what was moved from it.
LoggedNet(log, variant_id, location_id) ==
    SumSeq([i \in DOMAIN log |->
              IF log[i].product_variant_id # variant_id THEN 0
              ELSE (IF log[i].to_location_id = location_id
                    THEN log[i].quantity ELSE 0)
                   - (IF log[i].from_location_id = location_id
                      THEN log[i].quantity ELSE 0)])

\* C26: the stock agrees with the log: in every state reached from empty
\* stock and an empty log, for every variant and location the quantity of
\* the inventory item (0 when there is no row) equals the quantities logged
\* to the location minus the quantities logged from it.
StockAgreesWithLog ==
    \A variant_id \in Variants, location_id \in Locations :
        OnHand(inventory_items, variant_id, location_id)
          = LoggedNet(inventory_transactions, variant_id, location_id)


------------------------------------------------------------------------------
(* Properties of the returns exploration (SpecReturn).                      *)

\* The units returned against line i of an invoice: the quantities of the
\* lines, for the variant of line i, of every credit note written for that
\* invoice.  A credit note line holds its quantity negated.
ReturnedAgainst(i) ==
    SumSeq([j \in DOMAIN sale_items |->
              LET note == sales[sale_items[j].sale_id] IN
              IF /\ note.sale_type = "credit_note"
                 /\ note.original_sale_id = sale_items[i].sale_id
                 /\ sale_items[j].product_variant_id
                      = sale_items[i].product_variant_id
              THEN -sale_items[j].quantity ELSE 0])

\* C27: for every line of an invoice, the quantity returned against it,
\* summed over all credit notes of the invoice and over repeated entries
\* for the line within one credit note, never exceeds the quantity sold on
\* the line.
ReturnsWithinSold ==
    \A i \in DOMAIN sale_items :
        sales[sale_items[i].sale_id].sale_type = "invoice"
          => ReturnedAgainst(i) <= sale_items[i].quantity


\* The amounts of the sale_payments rows of a sale.
PaidInRows(sale_id) ==
    SumSeq([p \in DOMAIN sale_payments |->
              IF sale_payments[p].sale_id = sale_id
              THEN sale_payments[p].amount ELSE 0])

\* C28: under any interleaving of RecordPayment requests on one sale, the
\* sale_payments rows of the sale never add up to more than its
\* total_amount, and once the requests have answered the sale's amount_paid
\* is the sum of those rows.
PaymentsAddUp ==
    \A sale_id \in DOMAIN sales :
        /\ sales[sale_id].sale_type = "invoice"
             => PaidInRows(sale_id) <= sales[sale_id].total_amount
        /\ (\A w \in Workers : calls[w].pc = "idle")
             => sales[sale_id].amount_paid = PaidInRows(sale_id)


------------------------------------------------------------------------------
(* Properties of the interleaved reversals (SpecReverse).                   *)

\* The rows of the log written as the reversal of transaction t.
ReversalRows(t) ==
    {i \in DOMAIN inventory_transactions :
        /\ inventory_transactions[i].reference_type = "reversal"
        /\ inventory_transactions[i].reference_id = t}

\* C29: under any interleaving of the steps of Reverse requests for one
\* transaction at most one of them succeeds: the log never holds two rows
\* tagged reference_type "reversal" with the same reference_id.  Each
\* successful Reverse applies its movement and appends one such row.
OneReversalPerTransaction ==
    \A t \in DOMAIN inventory_transactions :
        Cardinality(ReversalRows(t)) <= 1


------------------------------------------------------------------------------
(* Properties of the expense exploration (SpecExpense).                     *)

\* C30: after any sequence of CreateExpense, UpdateExpense and
\* RecordPayment on an expense, every expense has amount_paid + amount_due
\* = amount, and its payment_status is paid exactly when amount_due <= 0,
\* partial exactly when amount_due > 0 and amount_paid > 0, and unpaid
\* otherwise.
ExpenseStatusIsDerived ==
    \A e \in DOMAIN expenses :
        /\ expenses[e].amount_paid + expenses[e].amount_due
             = expenses[e].amount
        /\ expenses[e].payment_status =
             IF expenses[e].amount_due <= 0 THEN "paid"
             ELSE IF expenses[e].amount_paid > 0 THEN "partial"
             ELSE "unpaid"

=============================================================================
